---- MODULE Spec2Model ----
(***************************************************************************)
(* MiScore: the game-records ledger of src/src/miscore/record_data.py.     *)
(*                                                                         *)
(* Values.  Every JSON / Python value is a record tagged by its field t:   *)
(*   null, str, num, list, date, datetime, timedelta, path.                *)
(* A str value carries its syntactic class k (plain text, ISO date text,   *)
(* date-time text, duration text, path text) and the fields of that class. *)
(* Path text is a sequence of tokens: names and the separators "/" and     *)
(* "\\".  A dict (JSON object, keyword arguments, pydantic model) is a     *)
(* function from keys to values; a key the dict lacks is outside its       *)
(* DOMAIN.                                                                 *)
(***************************************************************************)
EXTENDS Integers, Sequences, FiniteSets, TLC

VARIABLES file, cwd, pc, ctx, last, mem

vars == <<file, cwd, pc, ctx, last, mem>>

----------------------------------------------------------------------------
\* Values

Null == [t |-> "null"]
Str(s) == [t |-> "str", k |-> "plain", s |-> s]
DateStr(d) == [t |-> "str", k |-> "isodate", day |-> d]
DateTimeStr(d, tod) == [t |-> "str", k |-> "isodatetime", day |-> d, tod |-> tod]
DurationStr(sec) == [t |-> "str", k |-> "duration", sec |-> sec]
PathStr(p) == [t |-> "str", k |-> "path", p |-> p]
Num(n) == [t |-> "num", n |-> n]
List(v) == [t |-> "list", v |-> v]
DateObj(d) == [t |-> "date", day |-> d]
DateTimeObj(d, tod) == [t |-> "datetime", day |-> d, tod |-> tod]
TimedeltaObj(sec) == [t |-> "timedelta", sec |-> sec]
PathObj(p) == [t |-> "path", p |-> p]

EmptyDict == << >>
Has(d, key) == key \in DOMAIN d
Get(d, key) == IF key \in DOMAIN d THEN d[key] ELSE Null
Put(d, key, v) == (key :> v) @@ d
IsStr(v) == v.t = "str"
IsList(v) == v.t = "list"
Range(s) == {s[i] : i \in DOMAIN s}

\* Results of a validation: a value, or the class of the exception raised.
Ok(v) == [ok |-> TRUE, val |-> v]
Raise(e) == [ok |-> FALSE, exc |-> e]

----------------------------------------------------------------------------
\* The file system: the ledger lives in directory DocDir; the process may
\* run in DocDir or in OtherDir.  FilesOnDisk are the regular files that a
\* screenshot reference can resolve to (POSIX: "\\" is an ordinary
\* character of a file name).

DocDir == "docdir"
OtherDir == "otherdir"
Dirs == {DocDir, OtherDir}

ShotA == <<"a.png">>
ShotSlash == <<"sub", "/", "b.png">>
ShotBack == <<"sub", "\\", "b.png">>
ShotMissing == <<"nonexistent.png">>
\* a file named q
ShotQ == <<"q">>

FilesOnDisk ==
  {<<DocDir, ShotA>>, <<DocDir, ShotBack>>, <<OtherDir, ShotSlash>>, <<DocDir, ShotQ>>}

\* os.path.exists / pydantic FilePath: the path, relative to dir, is a file.
PathExists(dir, p) == <<dir, p>> \in FilesOnDisk

\* str.replace("\\", "/")
ReplaceBackslash(p) == [i \in DOMAIN p |-> IF p[i] = "\\" THEN "/" ELSE p[i]]

----------------------------------------------------------------------------
\* Field validation (pydantic, lax mode on Python input)

\* date: Union[date, datetime].  A date object and a datetime object keep
\* their type; date text gives a date; date-time text is first offered to
\* the date member, which in lax mode accepts it when its time part is
\* zero, and otherwise to the datetime member.
ValidateDate(v) ==
  CASE v.t = "date" -> Ok(v)
    [] v.t = "datetime" -> Ok(v)
    [] v.t = "str" /\ v.k = "isodate" -> Ok(DateObj(v.day))
    [] v.t = "str" /\ v.k = "isodatetime" ->
         IF v.tod = 0 THEN Ok(DateObj(v.day)) ELSE Ok(DateTimeObj(v.day, v.tod))
    [] OTHER -> Raise("ValidationError")

\* description: Optional[str]
ValidateOptStr(v) ==
  IF v.t = "null" \/ v.t = "str" THEN Ok(v) ELSE Raise("ValidationError")

\* name, difficulty: str
ValidateStr(v) ==
  IF v.t = "str" THEN Ok(v) ELSE Raise("ValidationError")

\* screenshot: Optional[FilePath]; the path is resolved against the working
\* directory dir and must be an existing file.
ValidateFilePath(v, dir) ==
  CASE v.t = "null" -> Ok(Null)
    [] v.t = "path" -> IF PathExists(dir, v.p) THEN Ok(v) ELSE Raise("ValidationError")
    [] v.t = "str" /\ v.k = "path" ->
         IF PathExists(dir, v.p) THEN Ok(PathObj(v.p)) ELSE Raise("ValidationError")
    [] OTHER -> Raise("ValidationError")

\* time: timedelta
ValidateTimedelta(v) ==
  CASE v.t = "timedelta" -> Ok(v)
    [] v.t = "str" /\ v.k = "duration" -> Ok(TimedeltaObj(v.sec))
    [] v.t = "num" -> Ok(TimedeltaObj(v.n))
    [] OTHER -> Raise("ValidationError")

\* score: float
ValidateFloat(v) ==
  IF v.t = "num" THEN Ok(v) ELSE Raise("ValidationError")

----------------------------------------------------------------------------
\* Entry Schema: the four entry classes

EntryClasses ==
  {"CompletedRecordEntry", "CompletedAtDifficultyRecordEntry",
   "TimeRecordEntry", "ScoreRecordEntry"}

EntryTags == {"completed", "completed_at_difficulty", "time", "score"}

\* the Literal default of entry_type of each class
TagOf(cls) ==
  CASE cls = "CompletedRecordEntry" -> "completed"
    [] cls = "CompletedAtDifficultyRecordEntry" -> "completed_at_difficulty"
    [] cls = "TimeRecordEntry" -> "time"
    [] cls = "ScoreRecordEntry" -> "score"

\* Discriminator("entry_type"): the class a tag selects
ClassOfTag(tag) == CHOOSE cls \in EntryClasses : TagOf(cls) = tag

BaseFields == {"entry_type", "date", "description", "screenshot"}

\* the field a subclass adds to CompletedRecordEntry
ExtraField(cls) ==
  CASE cls = "CompletedRecordEntry" -> {}
    [] cls = "CompletedAtDifficultyRecordEntry" -> {"difficulty"}
    [] cls = "TimeRecordEntry" -> {"time"}
    [] cls = "ScoreRecordEntry" -> {"score"}

FieldsOf(cls) == BaseFields \cup ExtraField(cls)

\* a required field: the validated value under its key
Field(key, r) == IF r.ok THEN Ok(key :> r.val) ELSE r

\* the field a subclass requires
ValidateExtra(cls, d) ==
  CASE cls = "CompletedRecordEntry" -> Ok(EmptyDict)
    [] cls = "CompletedAtDifficultyRecordEntry" ->
         IF Has(d, "difficulty")
         THEN Field("difficulty", ValidateStr(d["difficulty"]))
         ELSE Raise("ValidationError")
    [] cls = "TimeRecordEntry" ->
         IF Has(d, "time")
         THEN Field("time", ValidateTimedelta(d["time"]))
         ELSE Raise("ValidationError")
    [] cls = "ScoreRecordEntry" ->
         IF Has(d, "score")
         THEN Field("score", ValidateFloat(d["score"]))
         ELSE Raise("ValidationError")

\* A faulty variant: keys the class does not define are dropped, as with
\* extra="ignore".
EntryOfIgnoringExtra(cls, d, date, desc, shot, extra) ==
  IF /\ (Has(d, "entry_type") => d["entry_type"] = Str(TagOf(cls)))
     /\ date.ok /\ desc.ok /\ shot.ok /\ extra.ok
  THEN Ok([entry_type |-> Str(TagOf(cls)), date |-> date.val,
           description |-> desc.val, screenshot |-> shot.val] @@ extra.val)
  ELSE Raise("ValidationError")

\* Construction of one entry class from keyword arguments d (extra="forbid";
\* entry_type is a frozen Literal with a default).
EntryOf(cls, d, date, desc, shot, extra) ==
  IF /\ DOMAIN d \subseteq FieldsOf(cls)
     /\ (Has(d, "entry_type") => d["entry_type"] = Str(TagOf(cls)))
     /\ date.ok /\ desc.ok /\ shot.ok /\ extra.ok
  THEN Ok([entry_type |-> Str(TagOf(cls)), date |-> date.val,
           description |-> desc.val, screenshot |-> shot.val] @@ extra.val)
  ELSE Raise("ValidationError")

ValidateEntryAs(cls, d, dir) ==
  EntryOf(cls, d,
          IF Has(d, "date") THEN ValidateDate(d["date"]) ELSE Raise("ValidationError"),
          ValidateOptStr(Get(d, "description")),
          ValidateFilePath(Get(d, "screenshot"), dir),
          ValidateExtra(cls, d))

\* An item of RecordType.records: the discriminated union.  The tag must be
\* present in the input and names the one class that validates it.
ValidateEntry(d, dir) ==
  IF /\ Has(d, "entry_type")
     /\ d["entry_type"].t = "str" /\ d["entry_type"].k = "plain"
     /\ d["entry_type"].s \in EntryTags
  THEN ValidateEntryAs(ClassOfTag(d["entry_type"].s), d, dir)
  ELSE Raise("ValidationError")

\* the class of a validated entry
ClassOf(e) == ClassOfTag(e["entry_type"].s)

\* the three subclasses derive from CompletedRecordEntry
BasesOf(cls) == {cls, "CompletedRecordEntry"}

\* isinstance(e, cls)
IsInstance(e, cls) == cls \in BasesOf(ClassOf(e))

----------------------------------------------------------------------------
\* RecordType Schema

RecordTypeOptions ==
  {"completed", "completed_at_difficulty", "fastest_time", "longest_time",
   "high_score", "low_score"}

\* What a sequence of validation results gives: an exception that is not a
\* ValidationError leaves the validation at once, field errors are
\* collected into one ValidationError, otherwise the validated values.
Collect(rs) ==
  IF \E i \in DOMAIN rs : ~rs[i].ok /\ rs[i].exc # "ValidationError"
  THEN Raise((rs[CHOOSE i \in DOMAIN rs :
                 /\ ~rs[i].ok /\ rs[i].exc # "ValidationError"
                 /\ \A j \in DOMAIN rs :
                      (~rs[j].ok /\ rs[j].exc # "ValidationError") => i <= j]).exc)
  ELSE IF \E i \in DOMAIN rs : ~rs[i].ok
  THEN Raise("ValidationError")
  ELSE Ok([i \in DOMAIN rs |-> rs[i].val])

\* Optional[List[...]] with the item validator applied to every item
ListOf(c) == IF c.ok THEN Ok(List(c.val)) ELSE c

ValidateOptList(v, results) ==
  CASE v.t = "null" -> Ok(Null)
    [] v.t = "list" -> ListOf(Collect(results))
    [] OTHER -> Raise("ValidationError")

\* the entry class each branch of check_record_entry_types asserts
ExpectedClass(type) ==
  CASE type = "completed" -> "CompletedRecordEntry"
    [] type = "completed_at_difficulty" -> "CompletedAtDifficultyRecordEntry"
    [] type \in {"fastest_time", "longest_time"} -> "TimeRecordEntry"
    [] type \in {"high_score", "low_score"} -> "ScoreRecordEntry"

\* A faulty variant: every type is treated as completed is, so any entry
\* class passes.
check_entry_types_as_completed(values) ==
  IF values.records.t = "null"
  THEN Raise("TypeError")
  ELSE IF \A i \in DOMAIN values.records.v :
            IsInstance(values.records.v[i], "CompletedRecordEntry")
  THEN Ok(values)
  ELSE Raise("ValidationError")

\* RecordType.check_record_entry_types (model_validator, mode="after"):
\* every branch iterates records, so records = None raises TypeError; a
\* failed assert becomes a ValidationError.
check_record_entry_types(values) ==
  IF values.records.t = "null"
  THEN Raise("TypeError")
  ELSE IF \A i \in DOMAIN values.records.v :
            IsInstance(values.records.v[i], ExpectedClass(values.type.s))
  THEN Ok(values)
  ELSE Raise("ValidationError")

\* RecordType(**d): unknown keys are ignored
RecordTypeOf(d, name, desc, records) ==
  IF /\ name.ok /\ desc.ok /\ records.ok
     /\ Has(d, "type") /\ d["type"].t = "str" /\ d["type"].k = "plain"
     /\ d["type"].s \in RecordTypeOptions
  THEN check_record_entry_types(
         [name |-> name.val, description |-> desc.val, type |-> d["type"],
          records |-> records.val])
  ELSE Raise("ValidationError")

ValidateEntries(records, dir) ==
  ValidateOptList(records,
                  IF records.t = "list"
                  THEN [i \in DOMAIN records.v |-> ValidateEntry(records.v[i], dir)]
                  ELSE << >>)

ValidateRecordType(d, dir) ==
  RecordTypeOf(d,
               IF Has(d, "name") THEN ValidateStr(d["name"]) ELSE Raise("ValidationError"),
               ValidateOptStr(Get(d, "description")),
               ValidateEntries(Get(d, "records"), dir))

----------------------------------------------------------------------------
\* Game Schema

\* A faulty variant: the difficulties of the entries are not compared with
\* the game's.
skip_record_entry_difficulty(values) == Ok(values)

\* Game.check_record_entry_difficulty (model_validator, mode="after")
check_record_entry_difficulty(values) ==
  IF values.difficulties.t # "null" /\ values.record_types.t # "null"
  THEN IF \A i \in DOMAIN values.record_types.v :
            LET rt == values.record_types.v[i]
            IN (rt.type.s = "completed_at_difficulty" /\ rt.records.t # "null") =>
                 \A j \in DOMAIN rt.records.v :
                    rt.records.v[j]["difficulty"] \in Range(values.difficulties.v)
       THEN Ok(values)
       ELSE Raise("ValidationError")
  ELSE Ok(values)

\* Game(**d)
GameOf(name, difficulties, record_types) ==
  IF ~record_types.ok /\ record_types.exc # "ValidationError"
  THEN record_types
  ELSE IF name.ok /\ difficulties.ok /\ record_types.ok
  THEN check_record_entry_difficulty(
         [name |-> name.val, difficulties |-> difficulties.val,
          record_types |-> record_types.val])
  ELSE Raise("ValidationError")

ValidateDifficulties(difficulties) ==
  ValidateOptList(difficulties,
                  IF difficulties.t = "list"
                  THEN [i \in DOMAIN difficulties.v |-> ValidateStr(difficulties.v[i])]
                  ELSE << >>)

ValidateRecordTypes(record_types, dir) ==
  ValidateOptList(record_types,
                  IF record_types.t = "list"
                  THEN [i \in DOMAIN record_types.v |->
                          ValidateRecordType(record_types.v[i], dir)]
                  ELSE << >>)

ValidateGame(d, dir) ==
  GameOf(IF Has(d, "name") THEN ValidateStr(d["name"]) ELSE Raise("ValidationError"),
         ValidateDifficulties(Get(d, "difficulties")),
         ValidateRecordTypes(Get(d, "record_types"), dir))

----------------------------------------------------------------------------
\* Root Schema

\* RecordData(**d) with the working directory dir
RecordDataOf(c) == IF c.ok THEN Ok([games |-> List(c.val)]) ELSE c

ValidateRecordData(d, dir) ==
  IF Has(d, "games") /\ d["games"].t = "list"
  THEN RecordDataOf(Collect([i \in DOMAIN d["games"].v |->
                               ValidateGame(d["games"].v[i], dir)]))
  ELSE Raise("ValidationError")

----------------------------------------------------------------------------
\* Load: preprocessing and validation of the file's JSON value

IsDict(v) == ~Has(v, "t")

\* a value that Python treats as false: None, "" and []
Falsy(v) ==
  \/ v.t = "null"
  \/ (v.t = "list" /\ v.v = << >>)
  \/ (v.t = "str" /\ v.k = "path" /\ v.p = << >>)

\* the entry_type _preprocess_json_data derives from RecordType.type
InferredEntryType(type) ==
  CASE type = Str("completed") -> "completed"
    [] type = Str("completed_at_difficulty") -> "completed_at_difficulty"
    [] type \in {Str("fastest_time"), Str("longest_time")} -> "time"
    [] type \in {Str("high_score"), Str("low_score")} -> "score"
    [] OTHER -> "none"

\* the body of the loop over record_type["records"]
NormalizeScreenshot(record) ==
  IF Has(record, "screenshot") /\ ~Falsy(record["screenshot"])
  THEN Put(record, "screenshot", PathStr(ReplaceBackslash(record["screenshot"].p)))
  ELSE record

\* A faulty variant: the entry_type derived from the record type replaces
\* the one an entry states.
PreprocessRecordOverwriting(record, entry_type) ==
  NormalizeScreenshot(Put(record, "entry_type", Str(entry_type)))

PreprocessRecord(record, entry_type) ==
  NormalizeScreenshot(IF ~Has(record, "entry_type")
                      THEN Put(record, "entry_type", Str(entry_type))
                      ELSE record)

\* the body of the loop over game["record_types"]
PreprocessRecords(record_type, entry_type) ==
  IF entry_type = "none"
  THEN record_type
  ELSE Put(record_type, "records",
           List([i \in DOMAIN record_type["records"].v |->
                   PreprocessRecord(record_type["records"].v[i], entry_type)]))

PreprocessRecordType(record_type) ==
  IF ~Has(record_type, "records") \/ Falsy(record_type["records"])
  THEN record_type
  ELSE PreprocessRecords(record_type, InferredEntryType(Get(record_type, "type")))

\* the body of the loop over json_data["games"]
PreprocessGame(game) ==
  IF ~Has(game, "record_types") \/ game["record_types"].t = "null"
  THEN game
  ELSE Put(game, "record_types",
           List([i \in DOMAIN game["record_types"].v |->
                   PreprocessRecordType(game["record_types"].v[i])]))

\* RecordData._preprocess_json_data on a JSON object; iterating a games
\* value that is null raises TypeError.
_preprocess_json_data(json_data) ==
  IF ~Has(json_data, "games")
  THEN Ok(json_data)
  ELSE IF json_data["games"].t # "list"
  THEN Raise("TypeError")
  ELSE Ok(Put(json_data, "games",
              List([i \in DOMAIN json_data["games"].v |->
                      PreprocessGame(json_data["games"].v[i])])))

\* The contents of the ledger file: absent, bytes that are not JSON, or the
\* JSON value the bytes encode.
Absent == [kind |-> "absent"]
Garbage == [kind |-> "garbage"]
\* a file opened for writing and not yet written in full: empty, or the
\* start of a JSON text
Partial == [kind |-> "partial"]
Json(v) == [kind |-> "json", value |-> v]

\* What RecordData.load returns or raises for the file contents f.  The
\* working directory during validation is the file's directory.
ValidatePreprocessed(pre) ==
  IF pre.ok THEN ValidateRecordData(pre.val, DocDir) ELSE pre

LoadResult(f) ==
  CASE f.kind = "absent" -> Raise("FileNotFoundError")
    [] f.kind \in {"garbage", "partial"} -> Raise("JSONDecodeError")
    [] f.kind = "json" ->
         IF ~IsDict(f.value)
         THEN Raise("TypeError")
         ELSE ValidatePreprocessed(_preprocess_json_data(f.value))

\* The working directory after RecordData.load gave the result r:
\* os.chdir(old_wd) is reached only when nothing raised after
\* os.chdir(current_directory).
LoadCwd(r, old_wd) == IF r.ok THEN old_wd ELSE DocDir

----------------------------------------------------------------------------
\* Save: model_dump, _normalize_paths_for_save, json.dump(default=str)

\* model_dump() in Python mode: models become dicts, field values stay the
\* Python objects they are.
RECURSIVE model_dump(_)
model_dump(m) ==
  IF IsDict(m)
  THEN [key \in DOMAIN m |-> model_dump(m[key])]
  ELSE IF m.t = "list"
  THEN List([i \in DOMAIN m.v |-> model_dump(m.v[i])])
  ELSE m

\* RecordData._normalize_paths_for_save: only a screenshot that is a str is
\* rewritten; any other value is walked or returned as it is.
RECURSIVE _normalize_paths_for_save(_)
_normalize_paths_for_save(data) ==
  IF IsDict(data)
  THEN [key \in DOMAIN data |->
          IF key = "screenshot" /\ data[key].t = "str"
          THEN PathStr(ReplaceBackslash(data[key].p))
          ELSE _normalize_paths_for_save(data[key])]
  ELSE IF data.t = "list"
  THEN List([i \in DOMAIN data.v |-> _normalize_paths_for_save(data.v[i])])
  ELSE data

\* json.dump(data, default=str): JSON-native values are written as they
\* are, every other object as the text str() gives.
RECURSIVE JsonDump(_)
JsonDump(data) ==
  IF IsDict(data)
  THEN [key \in DOMAIN data |-> JsonDump(data[key])]
  ELSE CASE data.t = "list" -> List([i \in DOMAIN data.v |-> JsonDump(data.v[i])])
         [] data.t = "date" -> DateStr(data.day)
         [] data.t = "datetime" -> DateTimeStr(data.day, data.tod)
         [] data.t = "timedelta" -> DurationStr(data.sec)
         [] data.t = "path" -> PathStr(data.p)
         [] OTHER -> data

\* The file contents RecordData.save writes for the document doc
SaveResult(doc) == Json(JsonDump(_normalize_paths_for_save(model_dump(doc))))

----------------------------------------------------------------------------
\* Text typed at a prompt: a sequence of characters

DigitChars == {"0", "1", "2", "3", "4", "5", "6", "7", "8", "9"}

DigitVal(c) ==
  CASE c = "0" -> 0 [] c = "1" -> 1 [] c = "2" -> 2 [] c = "3" -> 3
    [] c = "4" -> 4 [] c = "5" -> 5 [] c = "6" -> 6 [] c = "7" -> 7
    [] c = "8" -> 8 [] c = "9" -> 9

\* \d+
IsDigits(s) == Len(s) > 0 /\ \A i \in DOMAIN s : s[i] \in DigitChars

\* int() of a text of digits
RECURSIVE ToInt(_)
ToInt(s) ==
  IF Len(s) = 0 THEN 0
  ELSE 10 * ToInt(SubSeq(s, 1, Len(s) - 1)) + DigitVal(s[Len(s)])

\* str.lower() on the letters the prompts look at
LowerChar(c) ==
  CASE c = "Q" -> "q" [] c = "Y" -> "y" [] c = "N" -> "n" [] c = "E" -> "e"
    [] c = "S" -> "s" [] c = "O" -> "o" [] c = "H" -> "h" [] c = "M" -> "m"
    [] OTHER -> c

Lower(s) == [i \in DOMAIN s |-> LowerChar(s[i])]

\* str.strip()
RECURSIVE LStrip(_)
LStrip(s) == IF Len(s) > 0 /\ s[1] = " " THEN LStrip(Tail(s)) ELSE s

RECURSIVE RStrip(_)
RStrip(s) ==
  IF Len(s) > 0 /\ s[Len(s)] = " " THEN RStrip(SubSeq(s, 1, Len(s) - 1)) ELSE s

Strip(s) == RStrip(LStrip(s))

\* str.split(sep)
RECURSIVE Split(_, _)
Split(s, sep) ==
  IF \E i \in DOMAIN s : s[i] = sep
  THEN LET i == CHOOSE i \in DOMAIN s : s[i] = sep /\ \A j \in 1..(i - 1) : s[j] # sep
       IN <<SubSeq(s, 1, i - 1)>> \o Split(SubSeq(s, i + 1, Len(s)), sep)
  ELSE <<s>>

\* A selection prompt of _select_game_interactive,
\* _select_record_type_interactive and _get_difficulty_input, asked over n
\* options: "q" cancels, a number in 1..n selects, anything else (int()
\* raising ValueError included) asks again.
SelectIndex(index, n) ==
  IF 0 <= index /\ index < n
  THEN [kind |-> "index", index |-> index + 1]
  ELSE [kind |-> "again"]

SelectChoice(choice, n) ==
  IF choice = <<"q">> THEN [kind |-> "cancel"]
  ELSE IF IsDigits(choice) THEN SelectIndex(ToInt(choice) - 1, n)
  ELSE [kind |-> "again"]

SelectAnswer(text, n) == SelectChoice(Lower(Strip(text)), n)

\* datetime.strptime(text, "%Y-%m-%d").date(), dates written yyyymmdd
DaysInMonth(y, m) ==
  CASE m \in {4, 6, 9, 11} -> 30
    [] m = 2 -> IF (y % 4 = 0 /\ y % 100 # 0) \/ y % 400 = 0 THEN 29 ELSE 28
    [] OTHER -> 31

MakeDate(y, m, d) ==
  IF y >= 1 /\ m \in 1..12 /\ d \in 1..DaysInMonth(y, m)
  THEN Ok(DateObj(y * 10000 + m * 100 + d))
  ELSE Raise("ValueError")

StrptimeParts(parts) ==
  IF /\ Len(parts) = 3
     /\ IsDigits(parts[1]) /\ Len(parts[1]) = 4
     /\ IsDigits(parts[2]) /\ Len(parts[2]) <= 2
     /\ IsDigits(parts[3]) /\ Len(parts[3]) <= 2
  THEN MakeDate(ToInt(parts[1]), ToInt(parts[2]), ToInt(parts[3]))
  ELSE Raise("ValueError")

Strptime(text) == StrptimeParts(Split(text, "-"))

\* date.today()
Today == 20240115

\* RecordData._get_date_input on one answer
\* a parsed answer is the value asked for; a ValueError asks again
Parsed(r) == IF r.ok THEN [kind |-> "value", value |-> r.val] ELSE [kind |-> "again"]

\* A faulty variant: the answer q is taken as the empty answer.
DateInputQuitAsToday(date_input) ==
  IF date_input = << >> \/ Lower(date_input) = <<"q">>
  THEN [kind |-> "value", value |-> DateObj(Today)]
  ELSE Parsed(Strptime(date_input))

DateInput(date_input) ==
  IF date_input = << >> THEN [kind |-> "value", value |-> DateObj(Today)]
  ELSE IF Lower(date_input) = <<"q">> THEN [kind |-> "cancel"]
  ELSE Parsed(Strptime(date_input))

DateAnswer(text) == DateInput(Strip(text))

\* the longest run of digits at the start of s
DigitRun(s) ==
  CHOOSE n \in 0..Len(s) :
    /\ \A i \in 1..n : s[i] \in DigitChars
    /\ (n < Len(s) => s[n + 1] \notin DigitChars)

\* (?:(\d+)<unit>)? at the start of s: the group and the rest of the text
Component(s, unit) ==
  LET n == DigitRun(s)
  IN IF n >= 1 /\ n < Len(s) /\ s[n + 1] = unit
     THEN [found |-> TRUE, val |-> SubSeq(s, 1, n), rest |-> SubSeq(s, n + 2, Len(s))]
     ELSE [found |-> FALSE, val |-> <<"0">>, rest |-> s]

\* the digits of s after its leading zeros
RECURSIVE Significant(_)
Significant(s) == IF Len(s) > 0 /\ s[1] = "0" THEN Significant(Tail(s)) ELSE s

\* RecordData._parse_time_input: the duration in seconds, or the error
\* raised.
\* timedelta(hours=h, minutes=m, seconds=s) on the integers int() makes of
\* the digit texts h, m and s.  A duration beyond 999999999 days raises
\* OverflowError: a component of more than TimedeltaMaxDigits significant
\* digits is at least 10^14 seconds, which is beyond it in every unit.
\* The other components typed here are short, far inside the range.
TimedeltaMaxDigits == 14

TooLong(digits) == Len(Significant(digits)) > TimedeltaMaxDigits

Timedelta(h, m, s) ==
  IF TooLong(h) \/ TooLong(m) \/ TooLong(s)
  THEN Raise("OverflowError")
  ELSE Ok(TimedeltaObj(3600 * ToInt(h) + 60 * ToInt(m) + ToInt(s)))

\* A faulty variant: the human readable form is taken to match a text
\* that has none of its three groups.
ParseSecondsNoGroupNeeded(time_input, s) ==
  IF s.rest = << >>
  THEN Timedelta(s.h.val, s.m.val, s.val)
  ELSE IF IsDigits(time_input)
  THEN Timedelta(<<"0">>, <<"0">>, time_input)
  ELSE Raise("ValueError")

\* the human readable form, its three groups matched in turn, then the
\* bare number of seconds
ParseSeconds(time_input, s) ==
  IF s.rest = << >> /\ (s.h.found \/ s.m.found \/ s.found)
  THEN Timedelta(s.h.val, s.m.val, s.val)
  ELSE IF IsDigits(time_input)
  THEN Timedelta(<<"0">>, <<"0">>, time_input)
  ELSE Raise("ValueError")

ParseMinutes(time_input, m) ==
  ParseSeconds(time_input, [h |-> m.h, m |-> m] @@ Component(m.rest, "s"))

ParseHours(time_input, h) ==
  ParseMinutes(time_input, [h |-> h] @@ Component(h.rest, "m"))

\* the forms HH:MM:SS and MM:SS, on the text split at ":"
ParseColons(time_input, parts) ==
  IF /\ Len(parts) = 3
     /\ IsDigits(parts[1]) /\ Len(parts[1]) <= 2
     /\ IsDigits(parts[2]) /\ Len(parts[2]) = 2
     /\ IsDigits(parts[3]) /\ Len(parts[3]) = 2
  THEN Timedelta(parts[1], parts[2], parts[3])
  ELSE IF /\ Len(parts) = 2
          /\ IsDigits(parts[1]) /\ Len(parts[1]) <= 3
          /\ IsDigits(parts[2]) /\ Len(parts[2]) = 2
  THEN Timedelta(<<"0">>, parts[1], parts[2])
  ELSE ParseHours(time_input, Component(Lower(time_input), "h"))

ParseStripped(time_input) == ParseColons(time_input, Split(time_input, ":"))

_parse_time_input(text) == ParseStripped(Strip(text))

\* RecordData._get_time_input on one answer: only a ValueError asks again,
\* any other error leaves the prompt as an exception
ParsedTime(r) ==
  IF r.ok \/ r.exc = "ValueError" THEN Parsed(r)
  ELSE [kind |-> "raise", exc |-> r.exc]

TimeInput(time_input) ==
  IF Lower(time_input) = <<"q">> THEN [kind |-> "cancel"]
  ELSE IF time_input = << >> THEN [kind |-> "again"]
  ELSE ParsedTime(_parse_time_input(time_input))

TimeAnswer(text) == TimeInput(Strip(text))

\* float() on a text of digits with an optional sign (the texts typed in
\* this model have no ".", exponent, "_", inf or nan)
ParseFloat(s) ==
  IF IsDigits(s) THEN Ok(Num(ToInt(s)))
  ELSE IF Len(s) > 1 /\ s[1] = "-" /\ IsDigits(Tail(s)) THEN Ok(Num(0 - ToInt(Tail(s))))
  ELSE Raise("ValueError")

\* RecordData._get_score_input on one answer
ScoreInput(score_input) ==
  IF Lower(score_input) = <<"q">> THEN [kind |-> "cancel"]
  ELSE IF score_input = << >> THEN [kind |-> "again"]
  ELSE Parsed(ParseFloat(score_input))

ScoreAnswer(text) == ScoreInput(Strip(text))

\* RecordData._get_optional_description / _get_record_type_description:
\* the description typed (already stripped), None when it is empty
DescriptionAnswer(text) == IF text = "" THEN Null ELSE Str(text)

----------------------------------------------------------------------------
\* Mutation operations

\* A faulty variant: the new game gets empty lists where the code leaves
\* the defaults.
NewGameWithEmptyLists(game_name) ==
  [name |-> Str(game_name), difficulties |-> List(<< >>), record_types |-> List(<< >>)]

\* Game(name=game_name)
NewGame(game_name) ==
  ValidateGame("name" :> Str(game_name), OtherDir).val

GameNames(doc) == [i \in DOMAIN doc.games.v |-> doc.games.v[i].name]

\* record_data.games.append(new_game)
AppendGame(doc, game) == [games |-> List(Append(doc.games.v, game))]

\* A faulty variant: the file is opened for writing before the document is
\* re-validated, so a failed validation leaves it truncated.
SaveUnvalidatedGame(validated_data, f, wd) ==
  IF ~validated_data.ok
  THEN [ret |-> "raised", exc |-> validated_data.exc, file |-> Garbage, cwd |-> wd,
        reval |-> "failed", wrote |-> TRUE]
  ELSE [ret |-> "True", exc |-> "none", file |-> SaveResult(validated_data.val),
        cwd |-> wd, reval |-> "ok", wrote |-> TRUE]

\* RecordData.add_game_to_file without the interactive set-up, on the file
\* contents f with working directory wd: what is returned or raised, the
\* file contents and the working directory afterwards, whether the
\* re-validation of the complete document ran and what it gave.
\* The end of add_game_to_file: validated_data is the result of
\* RecordData(**record_data.model_dump()); the file is saved only when that
\* raised nothing.
SaveValidatedGame(validated_data, f, wd) ==
  IF ~validated_data.ok
  THEN [ret |-> "raised", exc |-> validated_data.exc, file |-> f, cwd |-> wd,
        reval |-> "failed", wrote |-> FALSE]
  ELSE [ret |-> "True", exc |-> "none", file |-> SaveResult(validated_data.val),
        cwd |-> wd, reval |-> "ok", wrote |-> TRUE]

\* A faulty variant: the loop over the games that returns False for a name
\* already present is missing.
AddToLoadedUnchecked(game_name, loaded, f, wd) ==
  IF ~loaded.ok
  THEN [ret |-> "raised", exc |-> loaded.exc, file |-> f, cwd |-> LoadCwd(loaded, wd),
        reval |-> "none", wrote |-> FALSE]
  ELSE SaveValidatedGame(
         ValidateRecordData(model_dump(AppendGame(loaded.val, NewGame(game_name))), wd),
         f, wd)

\* A faulty variant: a file that load rejects is replaced by a fresh
\* document with the one game.
AddToLoadedReplacingUnreadable(game_name, loaded, f, wd) ==
  IF ~loaded.ok
  THEN SaveValidatedGame(
         ValidateRecordData(model_dump([games |-> List(<<NewGame(game_name)>>)]), wd),
         f, wd)
  ELSE IF Str(game_name) \in Range(GameNames(loaded.val))
  THEN [ret |-> "False", exc |-> "none", file |-> f, cwd |-> wd,
        reval |-> "none", wrote |-> FALSE]
  ELSE SaveValidatedGame(
         ValidateRecordData(model_dump(AppendGame(loaded.val, NewGame(game_name))), wd),
         f, wd)

\* the branch of add_game_to_file for a file that exists; loaded is what
\* load gave
AddToLoaded(game_name, loaded, f, wd) ==
  IF ~loaded.ok
  THEN [ret |-> "raised", exc |-> loaded.exc, file |-> f, cwd |-> LoadCwd(loaded, wd),
        reval |-> "none", wrote |-> FALSE]
  ELSE IF Str(game_name) \in Range(GameNames(loaded.val))
  THEN [ret |-> "False", exc |-> "none", file |-> f, cwd |-> wd,
        reval |-> "none", wrote |-> FALSE]
  ELSE SaveValidatedGame(
         ValidateRecordData(model_dump(AppendGame(loaded.val, NewGame(game_name))), wd),
         f, wd)

AddGameResult(game_name, f, wd) ==
  IF f.kind # "absent"
  THEN AddToLoaded(game_name, LoadResult(f), f, wd)
  ELSE SaveValidatedGame(
         ValidateRecordData(model_dump([games |-> List(<<NewGame(game_name)>>)]), wd),
         f, wd)

\* RecordData._create_record_entry: the class is chosen by the record
\* type, the keyword arguments are date, description, screenshot and the
\* field of the class.
base_data(details) ==
  [date |-> details["date"], description |-> Get(details, "description"),
   screenshot |-> Get(details, "screenshot")]

\* the class and the keyword arguments _create_record_entry uses
EntryKwargs(record_type, details) ==
  CASE record_type = "completed" ->
         [cls |-> "CompletedRecordEntry", kw |-> base_data(details)]
    [] record_type = "completed_at_difficulty" ->
         [cls |-> "CompletedAtDifficultyRecordEntry",
          kw |-> base_data(details) @@ ("difficulty" :> details["difficulty"])]
    [] record_type \in {"fastest_time", "longest_time"} ->
         [cls |-> "TimeRecordEntry",
          kw |-> base_data(details) @@ ("time" :> details["time"])]
    [] record_type \in {"high_score", "low_score"} ->
         [cls |-> "ScoreRecordEntry",
          kw |-> base_data(details) @@ ("score" :> details["score"])]
    [] OTHER -> [cls |-> "none", kw |-> EmptyDict]

ConstructEntry(c, dir) ==
  IF c.cls = "none" THEN Raise("ValueError") ELSE ValidateEntryAs(c.cls, c.kw, dir)

_create_record_entry(record_type, details, dir) ==
  ConstructEntry(EntryKwargs(record_type, details), dir)

\* A faulty variant: the new entry is put before the entries stored.
InsertRecordFirst(doc, gi, ri, new_record) ==
  LET records == doc.games.v[gi].record_types.v[ri].records
  IN [doc EXCEPT !.games.v[gi].record_types.v[ri].records =
        List(<<new_record>> \o (IF records.t = "null" THEN << >> ELSE records.v))]

\* selected_record_type.records.append(new_record), records being set to
\* [] first when it is None
AppendRecord(doc, gi, ri, new_record) ==
  LET records == doc.games.v[gi].record_types.v[ri].records
  IN [doc EXCEPT !.games.v[gi].record_types.v[ri].records =
        List(Append(IF records.t = "null" THEN << >> ELSE records.v, new_record))]

\* Step 4 of RecordData.add_record_to_file (the try block): the entry is
\* built and the complete document re-validated in the file's directory,
\* then saved; any exception gives False.
SaveValidatedRecord(validated_data, f) ==
  IF ~validated_data.ok
  THEN [ret |-> "False", file |-> f, reval |-> "failed", wrote |-> FALSE]
  ELSE [ret |-> "True", file |-> SaveResult(validated_data.val),
        reval |-> "ok", wrote |-> TRUE]

\* A faulty variant: the file is opened for writing before the entry is
\* built, so an entry that fails validation leaves it truncated.
AppendAndSaveTruncating(record_data, gi, ri, new_record, f) ==
  IF ~new_record.ok
  THEN [ret |-> "False", file |-> Garbage, reval |-> "failed", wrote |-> TRUE]
  ELSE SaveValidatedRecord(
         ValidateRecordData(model_dump(AppendRecord(record_data, gi, ri, new_record.val)),
                            DocDir),
         f)

AppendAndSave(record_data, gi, ri, new_record, f) ==
  IF ~new_record.ok
  THEN [ret |-> "False", file |-> f, reval |-> "failed", wrote |-> FALSE]
  ELSE SaveValidatedRecord(
         ValidateRecordData(model_dump(AppendRecord(record_data, gi, ri, new_record.val)),
                            DocDir),
         f)

\* A faulty variant: step 4 builds every entry as a plain completion and
\* saves the document without validating it again.
CommitRecordAsCompleted(record_data, gi, ri, details, f) ==
  [ret |-> "True",
   file |-> SaveResult(AppendRecord(record_data, gi, ri,
                                    _create_record_entry("completed", details, DocDir).val)),
   reval |-> "none", wrote |-> TRUE]

CommitRecord(record_data, gi, ri, details, f) ==
  AppendAndSave(record_data, gi, ri,
                _create_record_entry(record_data.games.v[gi].record_types.v[ri].type.s,
                                     details, DocDir),
                f)

----------------------------------------------------------------------------
\* State
\*   file  the contents of the ledger file
\*   cwd   the working directory of the process
\*   pc    the prompt an interactive call waits at, "idle" between calls
\*   ctx   the local variables of the call in progress
\*   last  the outcome of the call that finished last, none while a call
\*         is in progress
\*   mem   the document the caller holds in memory
\* An outcome also keeps where the call ended: the prompt it was at and
\* the game and record type selected by then (0 when none was).

NoCtx == [record_data |-> Null, gi |-> 0, ri |-> 0, details |-> EmptyDict,
          pending |-> << >>]
NoOutcome == [op |-> "none", ret |-> "none", exc |-> "none", val |-> Null,
              pre |-> Absent, precwd |-> DocDir, wrote |-> FALSE,
              reval |-> "none", arg |-> Null,
              at |-> [stage |-> "idle", gi |-> 0, ri |-> 0]]
NoMem == [st |-> "none"]

Outcome(op, ret, exc, val, pre, precwd, wrote, reval, arg) ==
  [op |-> op, ret |-> ret, exc |-> exc, val |-> val, pre |-> pre,
   precwd |-> precwd, wrote |-> wrote, reval |-> reval, arg |-> arg,
   at |-> [stage |-> pc, gi |-> ctx.gi, ri |-> ctx.ri]]

----------------------------------------------------------------------------
\* Bounds and the inputs the environment supplies

MaxGames == 2
MaxRecords == 2
MaxDifficulties == 2
MaxRecordTypes == 2

GameNameArgs == {"Hades", "Celeste"}
InteractiveNameArgs == {"Hades"}
SelectTexts == {<<"q">>, <<"1">>, <<"2">>, <<"9">>, <<"x">>}
\* today by default, cancel, today typed in full, a day that does not exist
DateTexts == {<< >>, <<"Q">>, <<"2", "0", "2", "4", "-", "0", "1", "-", "1", "5">>,
              <<"2", "0", "2", "3", "-", "0", "2", "-", "2", "9">>}
DescriptionTexts == {"", "q"}
ShotTexts == {<< >>, ShotA, ShotBack, ShotMissing, ShotQ}
ConfirmTexts == {<<"y">>, <<"n">>, <<"q">>}
YesNoTexts == {<<"y">>, <<"N", "o">>, <<"x">>}
LevelTexts == {"", "Normal", "Hard"}
ChoiceTexts == {"", "2", "3", "5", "7"}
RecordTypeNameTexts == {"", "Runs"}
RecordTypeDescriptionTexts == {""}
\* a time beyond what timedelta holds
LongDigits == [i \in 1..(TimedeltaMaxDigits + 1) |-> "1"]

TimeTexts ==
  {<<"q">>, << >>, <<"1", ":", "3", "0">>, <<"3", "0", "m", "2", "h">>, LongDigits}
ScoreTexts == {<<"q">>, << >>, <<"4", "2">>, <<"x">>}

\* the number of entries stored in a loaded document
RECURSIVE SumLen(_)
SumLen(ss) == IF ss = << >> THEN 0 ELSE Len(Head(ss)) + SumLen(Tail(ss))

RecordsOfGame(game) ==
  IF game.record_types.t = "null" THEN 0
  ELSE SumLen([i \in DOMAIN game.record_types.v |->
                 IF game.record_types.v[i].records.t = "null" THEN << >>
                 ELSE game.record_types.v[i].records.v])

RECURSIVE SumSeq(_)
SumSeq(ns) == IF ns = << >> THEN 0 ELSE Head(ns) + SumSeq(Tail(ns))

RecordCount(doc) == SumSeq([i \in DOMAIN doc.games.v |-> RecordsOfGame(doc.games.v[i])])

----------------------------------------------------------------------------
\* Actions

\* a call returns: its outcome is recorded and the process is idle again
Finish(outcome) ==
  /\ last' = outcome
  /\ pc' = "idle"
  /\ ctx' = NoCtx

\* RecordData.load(filename)
LoadReturns(r) ==
  /\ Finish(Outcome("load", IF r.ok THEN "doc" ELSE "raised",
                    IF r.ok THEN "none" ELSE r.exc,
                    IF r.ok THEN r.val ELSE Null,
                    file, cwd, FALSE, "none", Null))
  /\ cwd' = LoadCwd(r, cwd)
  /\ UNCHANGED <<file, mem>>

Load ==
  /\ pc = "idle"
  /\ LoadReturns(LoadResult(file))

\* The validate command of the command line: what it reports, or the
\* exception it raises again with --raise_error.
ValidateResult(raise_error, r) ==
  IF r.ok THEN [ret |-> "valid", exc |-> "none"]
  ELSE IF raise_error THEN [ret |-> "raised", exc |-> r.exc]
  ELSE [ret |-> "not valid", exc |-> "none"]

\* A faulty variant: the error is raised again whether or not
\* --raise_error is given.
ValidateReturnsAlwaysRaising(raise_error, r) ==
  /\ Finish(Outcome("validate", ValidateResult(TRUE, r).ret,
                    ValidateResult(TRUE, r).exc, Null, file, cwd, FALSE, "none",
                    IF raise_error THEN Str("--raise_error") ELSE Null))
  /\ cwd' = LoadCwd(r, cwd)
  /\ UNCHANGED <<file, mem>>

ValidateReturns(raise_error, r) ==
  /\ Finish(Outcome("validate", ValidateResult(raise_error, r).ret,
                    ValidateResult(raise_error, r).exc, Null, file, cwd, FALSE,
                    "none", IF raise_error THEN Str("--raise_error") ELSE Null))
  /\ cwd' = LoadCwd(r, cwd)
  /\ UNCHANGED <<file, mem>>

Validate(raise_error) ==
  /\ pc = "idle"
  /\ ValidateReturns(raise_error, LoadResult(file))

\* the exit code of the process: a command that returns exits with 0, an
\* exception that leaves cli() ends the interpreter with 1
ExitCode(outcome) == IF outcome.ret = "raised" THEN 1 ELSE 0

\* RecordData.add_game_to_file(game_name, filename, interactive=False)
FileGameCount(f) == IF f.kind = "json" THEN Len(f.value["games"].v) ELSE 0

AddGameReturns(game_name, r) ==
  /\ r.wrote => FileGameCount(r.file) <= MaxGames
  /\ Finish(Outcome("add_game", r.ret, r.exc, Null, file, cwd, r.wrote,
                    r.reval, Str(game_name)))
  /\ file' = r.file
  /\ cwd' = r.cwd
  /\ UNCHANGED mem

AddGame(game_name) ==
  /\ pc = "idle"
  /\ AddGameReturns(game_name, AddGameResult(game_name, file, cwd))

\* RecordData.add_game_to_file(game_name, filename, interactive=True): the
\* local variables of _create_game_interactive, _get_difficulty_levels and
\* _get_record_types, kept in ctx.details
GameSetup(game_name) ==
  [game_name |-> game_name, difficulties |-> Null, levels |-> << >>,
   types |-> << >>, key |-> ""]

\* the first prompt of _create_game_interactive; record_data is the
\* document loaded, None when the file does not exist
CreateGameInteractive(game_name, record_data) ==
  /\ pc' = "has_difficulties"
  /\ ctx' = [NoCtx EXCEPT !.record_data = record_data, !.details = GameSetup(game_name)]
  /\ last' = NoOutcome
  /\ UNCHANGED <<file, cwd, mem>>

\* A faulty variant: the interactive set-up starts without looking for
\* the name among the games loaded.
AddGameInteractiveLoadedUnchecked(game_name, loaded) ==
  IF ~loaded.ok
  THEN /\ Finish(Outcome("add_game", "raised", loaded.exc, Null, file, cwd, FALSE,
                         "none", Str(game_name)))
       /\ cwd' = LoadCwd(loaded, cwd)
       /\ UNCHANGED <<file, mem>>
  ELSE /\ Len(loaded.val.games.v) < MaxGames
       /\ CreateGameInteractive(game_name, loaded.val)

AddGameInteractiveLoaded(game_name, loaded) ==
  IF ~loaded.ok
  THEN /\ Finish(Outcome("add_game", "raised", loaded.exc, Null, file, cwd, FALSE,
                         "none", Str(game_name)))
       /\ cwd' = LoadCwd(loaded, cwd)
       /\ UNCHANGED <<file, mem>>
  ELSE IF Str(game_name) \in Range(GameNames(loaded.val))
  THEN /\ Finish(Outcome("add_game", "False", "none", Null, file, cwd, FALSE,
                         "none", Str(game_name)))
       /\ UNCHANGED <<file, cwd, mem>>
  ELSE /\ Len(loaded.val.games.v) < MaxGames
       /\ CreateGameInteractive(game_name, loaded.val)

AddGameInteractiveStart(game_name) ==
  /\ pc = "idle"
  /\ IF file.kind = "absent"
     THEN CreateGameInteractive(game_name, Null)
     ELSE AddGameInteractiveLoaded(game_name, LoadResult(file))

\* the end of add_game_to_file in interactive mode: the Game is built from
\* what was collected, appended or made the only game, and the document
\* validated again in the caller's working directory and saved
NewGameInteractive(game_name, difficulties, record_types) ==
  ValidateGame(model_dump([name |-> Str(game_name), difficulties |-> difficulties,
                           record_types |-> record_types]), cwd).val

WithGame(record_data, new_game) ==
  IF record_data = Null THEN [games |-> List(<<new_game>>)]
  ELSE AppendGame(record_data, new_game)

GameCreated(record_types) ==
  AddGameReturns(ctx.details.game_name,
    SaveValidatedGame(
      ValidateRecordData(
        model_dump(WithGame(ctx.record_data,
                            NewGameInteractive(ctx.details.game_name,
                                               ctx.details.difficulties, record_types))),
        cwd),
      file, cwd))

\* a y/n prompt of _create_game_interactive on one answer
YesNo(answer) ==
  IF answer \in {<<"y">>, <<"y", "e", "s">>} THEN "yes"
  ELSE IF answer \in {<<"n">>, <<"n", "o">>} THEN "no"
  ELSE "again"

\* "Does this game have difficulty levels?"
HasDifficulties(text) ==
  /\ pc = "has_difficulties"
  /\ LET a == YesNo(Lower(Strip(text)))
     IN CASE a = "yes" ->
               /\ pc' = "difficulty_level"
               /\ UNCHANGED <<file, cwd, ctx, last, mem>>
          [] a = "no" ->
               /\ pc' = "has_record_types"
               /\ UNCHANGED <<file, cwd, ctx, last, mem>>
          [] OTHER -> UNCHANGED vars

\* _get_difficulty_levels returns: None or the levels entered
DifficultiesCollected(difficulties) ==
  /\ pc' = "has_record_types"
  /\ ctx' = [ctx EXCEPT !.details.difficulties = difficulties, !.details.levels = << >>]
  /\ UNCHANGED <<file, cwd, last, mem>>

\* difficulties.append(difficulty)
AddLevel(difficulty) ==
  /\ Len(ctx.details.levels) < MaxDifficulties
  /\ pc' = "difficulty_level"
  /\ ctx' = [ctx EXCEPT !.details.levels = Append(@, Str(difficulty))]
  /\ UNCHANGED <<file, cwd, last, mem>>

\* A faulty variant: a label is added whether or not it was entered
\* before.
DifficultyLevelUnchecked(difficulty) ==
  /\ pc = "difficulty_level"
  /\ IF difficulty = ""
     THEN IF ctx.details.levels # << >>
          THEN DifficultiesCollected(List(ctx.details.levels))
          ELSE /\ pc' = "difficulty_again"
               /\ UNCHANGED <<file, cwd, ctx, last, mem>>
     ELSE AddLevel(difficulty)

\* the prompt of the loop of _get_difficulty_levels on one answer, already
\* stripped
DifficultyLevel(difficulty) ==
  /\ pc = "difficulty_level"
  /\ IF difficulty = ""
     THEN IF ctx.details.levels # << >>
          THEN DifficultiesCollected(List(ctx.details.levels))
          ELSE /\ pc' = "difficulty_again"
               /\ UNCHANGED <<file, cwd, ctx, last, mem>>
     ELSE IF Str(difficulty) \in Range(ctx.details.levels)
     THEN UNCHANGED vars
     ELSE AddLevel(difficulty)

\* the second prompt after an empty answer with nothing entered yet
DifficultyAgain(empty_again) ==
  /\ pc = "difficulty_again"
  /\ IF empty_again = "" THEN DifficultiesCollected(Null) ELSE AddLevel(empty_again)

\* "Do you want to add record types?"
HasRecordTypes(text) ==
  /\ pc = "has_record_types"
  /\ LET a == YesNo(Lower(Strip(text)))
     IN CASE a = "yes" ->
               /\ pc' = "record_type"
               /\ UNCHANGED <<file, cwd, ctx, last, mem>>
          [] a = "no" -> GameCreated(Null)
          [] OTHER -> UNCHANGED vars

\* _get_record_types
available_types(choice) ==
  CASE choice = "1" -> "completed"
    [] choice = "2" -> "completed_at_difficulty"
    [] choice = "3" -> "fastest_time"
    [] choice = "4" -> "longest_time"
    [] choice = "5" -> "high_score"
    [] choice = "6" -> "low_score"
    [] OTHER -> "none"

used_types == {ctx.details.types[i].type.s : i \in DOMAIN ctx.details.types}

\* the loop of _get_record_types asks for a number again
AskRecordType ==
  /\ pc' = "record_type"
  /\ UNCHANGED <<file, cwd, ctx, last, mem>>

\* A faulty variant: completed_at_difficulty is taken for a game without
\* difficulties too.
ChooseRecordTypeAnyGame(record_type_key) ==
  IF record_type_key = "none" \/ record_type_key \in used_types
  THEN AskRecordType
  ELSE /\ Len(ctx.details.types) < MaxRecordTypes
       /\ pc' = "record_type_name"
       /\ ctx' = [ctx EXCEPT !.details.key = record_type_key]
       /\ UNCHANGED <<file, cwd, last, mem>>

\* a choice that is not empty: a number outside 1-6, a type already used
\* and completed_at_difficulty for a game without difficulties are refused
ChooseRecordType(record_type_key) ==
  IF \/ record_type_key = "none"
     \/ record_type_key \in used_types
     \/ (record_type_key = "completed_at_difficulty" /\ Falsy(ctx.details.difficulties))
  THEN AskRecordType
  ELSE /\ Len(ctx.details.types) < MaxRecordTypes
       /\ pc' = "record_type_name"
       /\ ctx' = [ctx EXCEPT !.details.key = record_type_key]
       /\ UNCHANGED <<file, cwd, last, mem>>

RecordTypeChoice(choice) ==
  /\ pc = "record_type"
  /\ IF choice = ""
     THEN IF ctx.details.types # << >>
          THEN GameCreated(List(ctx.details.types))
          ELSE /\ pc' = "record_type_again"
               /\ UNCHANGED <<file, cwd, ctx, last, mem>>
     ELSE ChooseRecordType(available_types(choice))

RecordTypeAgain(empty_again) ==
  /\ pc = "record_type_again"
  /\ IF empty_again = "" THEN GameCreated(Null)
     ELSE ChooseRecordType(available_types(empty_again))

\* _get_record_type_name
default_names(record_type_key) ==
  CASE record_type_key = "completed" -> "Game Completion"
    [] record_type_key = "completed_at_difficulty" -> "Difficulty Completion"
    [] record_type_key = "fastest_time" -> "Speed Run"
    [] record_type_key = "longest_time" -> "Marathon Run"
    [] record_type_key = "high_score" -> "High Score"
    [] record_type_key = "low_score" -> "Low Score"

RecordTypeName(name) ==
  /\ pc = "record_type_name"
  /\ pc' = "record_type_description"
  /\ ctx' = [ctx EXCEPT !.pending = IF name # "" THEN name
                                    ELSE default_names(ctx.details.key)]
  /\ UNCHANGED <<file, cwd, last, mem>>

\* _get_record_type_description, then RecordType(name=name,
\* description=description, type=record_type_key, records=[])
NewRecordType(name, description, record_type_key) ==
  ValidateRecordType([name |-> Str(name), description |-> description,
                      type |-> Str(record_type_key), records |-> List(<< >>)], cwd).val

RecordTypeDescription(text) ==
  /\ pc = "record_type_description"
  /\ pc' = "record_type"
  /\ ctx' = [ctx EXCEPT
               !.details.types =
                 Append(@, NewRecordType(ctx.pending, DescriptionAnswer(text),
                                         ctx.details.key)),
               !.details.key = "", !.pending = << >>]
  /\ UNCHANGED <<file, cwd, last, mem>>

\* RecordData.add_game_to_file(game_name, filename, interactive=True)
AddGameInteractive ==
  \/ \E game_name \in InteractiveNameArgs : AddGameInteractiveStart(game_name)
  \/ \E text \in YesNoTexts : HasDifficulties(text)
  \/ \E text \in LevelTexts : DifficultyLevel(text)
  \/ \E text \in LevelTexts : DifficultyAgain(text)
  \/ \E text \in YesNoTexts : HasRecordTypes(text)
  \/ \E text \in ChoiceTexts : RecordTypeChoice(text)
  \/ \E text \in ChoiceTexts : RecordTypeAgain(text)
  \/ \E text \in RecordTypeNameTexts : RecordTypeName(text)
  \/ \E text \in RecordTypeDescriptionTexts : RecordTypeDescription(text)

\* add_record_to_file returns False before its step 4
Abort ==
  /\ Finish(Outcome("add_record", "False", "none", Null, file, cwd, FALSE, "none", Null))
  /\ UNCHANGED <<file, cwd, mem>>

\* an exception raised while step 3 collects the details leaves
\* add_record_to_file: the step is outside every try block
Escape(exc) ==
  /\ Finish(Outcome("add_record", "raised", exc, Null, file, cwd, FALSE, "none", Null))
  /\ UNCHANGED <<file, cwd, mem>>

\* add_record_to_file returns False for the game selected, which has no
\* record types
AbortGame(gi) ==
  /\ Finish([Outcome("add_record", "False", "none", Null, file, cwd, FALSE, "none",
                      Null) EXCEPT !.at.gi = gi])
  /\ UNCHANGED <<file, cwd, mem>>

\* Step 4 of add_record_to_file with the details collected; the working
\* directory is the file's directory inside the try block and old_wd again
\* after the finally clause.
CommitReturns(r) ==
  /\ Finish(Outcome("add_record", r.ret, "none", Null, file, cwd, r.wrote,
                    r.reval, Null))
  /\ file' = r.file
  /\ UNCHANGED <<cwd, mem>>

Commit(details) ==
  CommitReturns(CommitRecord(ctx.record_data, ctx.gi, ctx.ri, details, file))

\* A faulty variant: a document without games is taken to game selection.
AddRecordLoadedNoGamesCheck(interactive, loaded) ==
  /\ loaded.ok => RecordCount(loaded.val) < MaxRecords
  /\ IF ~loaded.ok
     THEN /\ Finish(Outcome("add_record", "False", "none", Null, file, cwd, FALSE,
                            "none", Null))
          /\ cwd' = LoadCwd(loaded, cwd)
          /\ UNCHANGED <<file, mem>>
     ELSE IF ~interactive
     THEN Abort
     ELSE /\ pc' = "select_game"
          /\ ctx' = [NoCtx EXCEPT !.record_data = loaded.val]
          /\ last' = NoOutcome
          /\ UNCHANGED <<file, cwd, mem>>

\* A faulty variant: a call that is not interactive prompts all the same.
AddRecordLoadedAlwaysPrompting(interactive, loaded) ==
  /\ loaded.ok => RecordCount(loaded.val) < MaxRecords
  /\ IF ~loaded.ok
     THEN /\ Finish(Outcome("add_record", "False", "none", Null, file, cwd, FALSE,
                            "none", Null))
          /\ cwd' = LoadCwd(loaded, cwd)
          /\ UNCHANGED <<file, mem>>
     ELSE IF loaded.val.games.v = << >>
     THEN Abort
     ELSE /\ pc' = "select_game"
          /\ ctx' = [NoCtx EXCEPT !.record_data = loaded.val]
          /\ last' = NoOutcome
          /\ UNCHANGED <<file, cwd, mem>>

\* RecordData.add_record_to_file up to its first prompt
AddRecordLoaded(interactive, loaded) ==
  /\ loaded.ok => RecordCount(loaded.val) < MaxRecords
  /\ IF ~loaded.ok
     THEN /\ Finish(Outcome("add_record", "False", "none", Null, file, cwd, FALSE,
                            "none", Null))
          /\ cwd' = LoadCwd(loaded, cwd)
          /\ UNCHANGED <<file, mem>>
     ELSE IF loaded.val.games.v = << >> \/ ~interactive
     THEN Abort
     ELSE /\ pc' = "select_game"
          /\ ctx' = [NoCtx EXCEPT !.record_data = loaded.val]
          /\ last' = NoOutcome
          /\ UNCHANGED <<file, cwd, mem>>

AddRecordStart(interactive) ==
  /\ pc = "idle"
  /\ IF file.kind = "absent"
     THEN Abort
     ELSE AddRecordLoaded(interactive, LoadResult(file))

selected_game == ctx.record_data.games.v[ctx.gi]
selected_record_type == selected_game.record_types.v[ctx.ri]

\* A faulty variant: the game selected goes to record-type selection
\* whether or not it has record types.
SelectGameUnchecked(text) ==
  /\ pc = "select_game"
  /\ LET a == SelectAnswer(text, Len(ctx.record_data.games.v))
     IN CASE a.kind = "cancel" -> Abort
          [] a.kind = "again" -> UNCHANGED vars
          [] a.kind = "index" ->
               /\ pc' = "select_record_type"
               /\ ctx' = [ctx EXCEPT !.gi = a.index]
               /\ UNCHANGED <<file, cwd, last, mem>>

\* Step 1, _select_game_interactive, on one answer; a game without record
\* types ends the call.
SelectGame(text) ==
  /\ pc = "select_game"
  /\ LET a == SelectAnswer(text, Len(ctx.record_data.games.v))
     IN CASE a.kind = "cancel" -> Abort
          [] a.kind = "again" -> UNCHANGED vars
          [] a.kind = "index" ->
               LET game == ctx.record_data.games.v[a.index]
               IN IF Falsy(game.record_types)
                  THEN AbortGame(a.index)
                  ELSE /\ pc' = "select_record_type"
                       /\ ctx' = [ctx EXCEPT !.gi = a.index]
                       /\ UNCHANGED <<file, cwd, last, mem>>

\* Step 2, _select_record_type_interactive, on one answer
SelectRecordType(text) ==
  /\ pc = "select_record_type"
  /\ LET a == SelectAnswer(text, Len(selected_game.record_types.v))
     IN CASE a.kind = "cancel" -> Abort
          [] a.kind = "again" -> UNCHANGED vars
          [] a.kind = "index" ->
               /\ pc' = "date"
               /\ ctx' = [ctx EXCEPT !.ri = a.index]
               /\ UNCHANGED <<file, cwd, last, mem>>

\* Step 3, _collect_record_details_interactive: the date prompt
CollectDate(text) ==
  /\ pc = "date"
  /\ LET a == DateAnswer(text)
     IN CASE a.kind = "cancel" -> Abort
          [] a.kind = "again" -> UNCHANGED vars
          [] a.kind = "value" ->
               /\ pc' = "description"
               /\ ctx' = [ctx EXCEPT !.details = Put(@, "date", a.value)]
               /\ UNCHANGED <<file, cwd, last, mem>>

\* A faulty variant: for a record type with a time the screenshot is not
\* asked for, the prompt after the description is the time prompt.
CollectDescriptionThenField(text) ==
  /\ pc = "description"
  /\ pc' = IF selected_record_type.type.s \in {"fastest_time", "longest_time"}
           THEN "time" ELSE "screenshot"
  /\ ctx' = [ctx EXCEPT !.details = Put(@, "description", DescriptionAnswer(text))]
  /\ UNCHANGED <<file, cwd, last, mem>>

\* A faulty variant: the answer q at the description prompt ends the call.
CollectDescriptionQuitting(text) ==
  /\ pc = "description"
  /\ IF text = "q"
     THEN Abort
     ELSE /\ pc' = "screenshot"
          /\ ctx' = [ctx EXCEPT !.details = Put(@, "description", DescriptionAnswer(text))]
          /\ UNCHANGED <<file, cwd, last, mem>>

\* the description prompt
CollectDescription(text) ==
  /\ pc = "description"
  /\ pc' = "screenshot"
  /\ ctx' = [ctx EXCEPT !.details = Put(@, "description", DescriptionAnswer(text))]
  /\ UNCHANGED <<file, cwd, last, mem>>

\* A faulty variant: for a game without difficulties the entry is built
\* with an empty difficulty where the code ends the call.
AfterScreenshotEmptyDifficulty(screenshot) ==
  LET details == Put(ctx.details, "screenshot", screenshot)
      type == selected_record_type.type.s
  IN CASE type = "completed_at_difficulty" ->
            IF Falsy(selected_game.difficulties)
            THEN Commit(Put(details, "difficulty", Str("")))
            ELSE /\ pc' = "difficulty"
                 /\ ctx' = [ctx EXCEPT !.details = details, !.pending = << >>]
                 /\ UNCHANGED <<file, cwd, last, mem>>
       [] type \in {"fastest_time", "longest_time"} ->
            /\ pc' = "time"
            /\ ctx' = [ctx EXCEPT !.details = details, !.pending = << >>]
            /\ UNCHANGED <<file, cwd, last, mem>>
       [] type \in {"high_score", "low_score"} ->
            /\ pc' = "score"
            /\ ctx' = [ctx EXCEPT !.details = details, !.pending = << >>]
            /\ UNCHANGED <<file, cwd, last, mem>>
       [] OTHER -> Commit(details)

\* The rest of _collect_record_details_interactive once the screenshot is
\* known: the prompt for the field of the record type, or step 4 at once
\* for the type completed.  A completed_at_difficulty record of a game
\* without difficulties ends the call.
AfterScreenshot(screenshot) ==
  LET details == Put(ctx.details, "screenshot", screenshot)
      type == selected_record_type.type.s
  IN CASE type = "completed_at_difficulty" ->
            IF Falsy(selected_game.difficulties)
            THEN Abort
            ELSE /\ pc' = "difficulty"
                 /\ ctx' = [ctx EXCEPT !.details = details, !.pending = << >>]
                 /\ UNCHANGED <<file, cwd, last, mem>>
       [] type \in {"fastest_time", "longest_time"} ->
            /\ pc' = "time"
            /\ ctx' = [ctx EXCEPT !.details = details, !.pending = << >>]
            /\ UNCHANGED <<file, cwd, last, mem>>
       [] type \in {"high_score", "low_score"} ->
            /\ pc' = "score"
            /\ ctx' = [ctx EXCEPT !.details = details, !.pending = << >>]
            /\ UNCHANGED <<file, cwd, last, mem>>
       [] OTHER -> Commit(details)

\* _get_optional_screenshot: the path prompt.  An empty answer is None; a
\* path that does not exist in the file's directory asks for confirmation.
CollectScreenshot(path) ==
  /\ pc = "screenshot"
  /\ IF path = << >>
     THEN AfterScreenshot(Null)
     ELSE IF PathExists(DocDir, path)
     THEN AfterScreenshot(PathStr(path))
     ELSE /\ pc' = "confirm_screenshot"
          /\ ctx' = [ctx EXCEPT !.pending = path]
          /\ UNCHANGED <<file, cwd, last, mem>>

\* _get_optional_screenshot: "Continue anyway?"; any answer but y or yes
\* asks for the path again.
ConfirmScreenshot(text) ==
  /\ pc = "confirm_screenshot"
  /\ IF Lower(Strip(text)) \in {<<"y">>, <<"y", "e", "s">>}
     THEN AfterScreenshot(PathStr(ctx.pending))
     ELSE /\ pc' = "screenshot"
          /\ ctx' = [ctx EXCEPT !.pending = << >>]
          /\ UNCHANGED <<file, cwd, last, mem>>

\* _get_difficulty_input on one answer, then step 4
CollectDifficulty(text) ==
  /\ pc = "difficulty"
  /\ LET a == SelectAnswer(text, Len(selected_game.difficulties.v))
     IN CASE a.kind = "cancel" -> Abort
          [] a.kind = "again" -> UNCHANGED vars
          [] a.kind = "index" ->
               Commit(Put(ctx.details, "difficulty", selected_game.difficulties.v[a.index]))

\* _get_time_input on one answer, then step 4
CollectTime(text) ==
  /\ pc = "time"
  /\ LET a == TimeAnswer(text)
     IN CASE a.kind = "cancel" -> Abort
          [] a.kind = "again" -> UNCHANGED vars
          [] a.kind = "value" -> Commit(Put(ctx.details, "time", a.value))
          [] a.kind = "raise" -> Escape(a.exc)

\* _get_score_input on one answer, then step 4
CollectScore(text) ==
  /\ pc = "score"
  /\ LET a == ScoreAnswer(text)
     IN CASE a.kind = "cancel" -> Abort
          [] a.kind = "again" -> UNCHANGED vars
          [] a.kind = "value" -> Commit(Put(ctx.details, "score", a.value))

\* RecordData.add_record_to_file(filename, interactive)
AddRecord ==
  \/ \E interactive \in BOOLEAN : AddRecordStart(interactive)
  \/ \E text \in SelectTexts : SelectGame(text)
  \/ \E text \in SelectTexts : SelectRecordType(text)
  \/ \E text \in DateTexts : CollectDate(text)
  \/ \E text \in DescriptionTexts : CollectDescription(text)
  \/ \E path \in ShotTexts : CollectScreenshot(path)
  \/ \E text \in ConfirmTexts : ConfirmScreenshot(text)
  \/ \E text \in SelectTexts : CollectDifficulty(text)
  \/ \E text \in TimeTexts : CollectTime(text)
  \/ \E text \in ScoreTexts : CollectScore(text)

----------------------------------------------------------------------------
\* The ledgers the operations start from

JsonEntry(entry_type, date, screenshot) ==
  [entry_type |-> Str(entry_type), date |-> date, description |-> Null,
   screenshot |-> screenshot]

JsonRecordType(name, type, records) ==
  [name |-> Str(name), description |-> Null, type |-> Str(type), records |-> records]

JsonGame(name, difficulties, record_types) ==
  [name |-> Str(name), difficulties |-> difficulties, record_types |-> record_types]

JsonData(games) == Json([games |-> List(games)])

Hades ==
  JsonGame("Hades", List(<<Str("Normal"), Str("Hard")>>),
           List(<<JsonRecordType("Runs", "completed_at_difficulty", List(<< >>)),
                  JsonRecordType("Speed", "fastest_time", List(<< >>))>>))

Tetris ==
  JsonGame("Tetris", Null,
           List(<<JsonRecordType("Done", "completed", List(<< >>)),
                  JsonRecordType("Points", "high_score", List(<< >>))>>))

\* no record types
Celeste == JsonGame("Celeste", Null, Null)

\* a game whose list of record types is empty
Limbo == JsonGame("Limbo", Null, List(<< >>))

\* a completed_at_difficulty record type in a game without difficulties
Doom ==
  JsonGame("Doom", List(<< >>),
           List(<<JsonRecordType("Runs", "completed_at_difficulty", List(<< >>))>>))

\* a completed_at_difficulty record type in a game whose difficulties is
\* null
Quake ==
  JsonGame("Quake", Null,
           List(<<JsonRecordType("Runs", "completed_at_difficulty", List(<< >>))>>))

\* an entry with a screenshot that exists in the ledger's directory
Portal ==
  JsonGame("Portal", Null,
           List(<<JsonRecordType("Done", "completed",
                    List(<<JsonEntry("completed", DateStr(20240101), PathStr(ShotA))>>))>>))

\* an older ledger: the entry has no entry_type
Legacy ==
  JsonGame("Legacy", Null,
           List(<<JsonRecordType("Speed", "longest_time",
                    List(<<[date |-> DateStr(20240101), time |-> DurationStr(90)]>>))>>))

\* a record type whose records is null
NullRecords ==
  JsonGame("Hades", Null, List(<<JsonRecordType("Done", "completed", Null)>>))

\* a game without a name
Nameless == [difficulties |-> Null, record_types |-> Null]

SeedFiles ==
  {Absent, Garbage, Json(List(<< >>)), Json([games |-> Null]),
   JsonData(<< >>), JsonData(<<Hades>>), JsonData(<<Tetris>>),
   JsonData(<<Celeste, Hades>>), JsonData(<<Limbo>>), JsonData(<<Doom>>),
   JsonData(<<Quake>>),
   JsonData(<<Portal>>),
   JsonData(<<Legacy>>), JsonData(<<NullRecords>>), JsonData(<<Nameless>>)}

Init ==
  /\ file \in SeedFiles
  /\ cwd \in Dirs
  /\ pc = "idle"
  /\ ctx = NoCtx
  /\ last = NoOutcome
  /\ mem = NoMem

Next ==
  \/ Load
  \/ \E raise_error \in BOOLEAN : Validate(raise_error)
  \/ \E game_name \in GameNameArgs : AddGame(game_name)
  \/ AddRecord

Spec == Init /\ [][Next]_vars

\* A ledger built from nothing at the terminal: games set up
\* interactively or not, and records added to them.
InitG ==
  /\ file = Absent
  /\ cwd \in Dirs
  /\ pc = "idle"
  /\ ctx = NoCtx
  /\ last = NoOutcome
  /\ mem = NoMem

\* add_record_to_file at the terminal, with no description and no
\* screenshot on disk
AddRecordPlain ==
  \/ \E interactive \in BOOLEAN : AddRecordStart(interactive)
  \/ \E text \in SelectTexts : SelectGame(text)
  \/ \E text \in SelectTexts : SelectRecordType(text)
  \/ \E text \in DateTexts : CollectDate(text)
  \/ CollectDescription("")
  \/ \E path \in {<< >>, ShotMissing} : CollectScreenshot(path)
  \/ \E text \in ConfirmTexts : ConfirmScreenshot(text)
  \/ \E text \in SelectTexts : CollectDifficulty(text)
  \/ \E text \in TimeTexts : CollectTime(text)
  \/ \E text \in ScoreTexts : CollectScore(text)

NextG ==
  \/ AddGameInteractive
  \/ \E game_name \in GameNameArgs : AddGame(game_name)
  \/ AddRecordPlain

SpecG == InitG /\ [][NextG]_vars

\* The calls that prompt, each followed to its end: a game set up where
\* no ledger exists yet, and a record added to a ledger with one game.
LedgersL == {JsonData(<<Hades>>), JsonData(<<Tetris>>)}

InitL ==
  /\ file \in LedgersL \cup {Absent}
  /\ cwd \in Dirs
  /\ pc = "idle"
  /\ ctx = NoCtx
  /\ last = NoOutcome
  /\ mem = NoMem

NextL ==
  \/ file = Absent /\ AddGameInteractive
  \/ file \in LedgersL /\ AddRecordPlain

\* An answer the prompt can use, or q: the call goes on to what follows or
\* ends.  Two prompts send an answer they cannot use back to the prompt
\* before them: "Continue anyway?" any answer but yes, and the second
\* prompt for a record type a number that is refused.
SentBack ==
  \/ pc = "confirm_screenshot" /\ pc' = "screenshot"
  \/ pc = "record_type_again" /\ pc' = "record_type"

Answered == pc # "idle" /\ ~SentBack

\* The user at the terminal: input() blocks until a line is typed, and a
\* prompt that is asked again and again is in the end given an answer it
\* can use, or q.  Every prompt has such an answer, so Answered is enabled
\* exactly while a call is in progress: the first conjunct is weak
\* fairness of Answered, the other two are strong fairness of it at the
\* two prompts that send back, each with ENABLED written out.
UserAnswers ==
  /\ []<>(pc = "idle") \/ []<><<Answered>>_vars
  /\ <>[](pc # "confirm_screenshot")
       \/ []<><<pc = "confirm_screenshot" /\ Answered>>_vars
  /\ <>[](pc # "record_type_again")
       \/ []<><<pc = "record_type_again" /\ Answered>>_vars

SpecL == InitL /\ [][NextL]_vars /\ UserAnswers

\* The same calls on a ledger that exists: one that load accepts, bytes
\* that are not JSON, and JSON that is not a valid document.
ExistingFiles ==
  {Garbage, Json(List(<< >>)), Json([games |-> Null]), JsonData(<<Nameless>>),
   JsonData(<<Tetris>>)}

InitE ==
  /\ file \in ExistingFiles
  /\ cwd \in Dirs
  /\ pc = "idle"
  /\ ctx = NoCtx
  /\ last = NoOutcome
  /\ mem = NoMem

SpecE == InitE /\ [][NextG]_vars

----------------------------------------------------------------------------
\* Validation and the save/load round trip on generated documents.
\* A document is given as the mapping RecordData(**mapping) is called with
\* (Python objects or JSON values), or as the JSON value of a ledger file.

MaxTod == 1

EntryTypeChoices == {EmptyDict} \cup {"entry_type" :> Str(tag) : tag \in EntryTags}

ExtraChoices(time) ==
  {EmptyDict, "difficulty" :> Str("Normal"), "time" :> time, "score" :> Num(42)}

\* a difficulty the game does not declare, a key no entry class defines,
\* the fields of two entry classes together
BadExtraChoices(time) ==
  {"difficulty" :> Str("Nightmare"), "bonus" :> Num(1),
   ("time" :> time) @@ ("score" :> Num(42)),
   ("score" :> Num(42)) @@ ("difficulty" :> Str("Normal")),
   ("difficulty" :> Str("Normal")) @@ ("time" :> time)}

ShotChoices(shots) == {EmptyDict} \cup {"screenshot" :> PathStr(p) : p \in shots}

Entries(dates, shots, extras) ==
  {("date" :> date) @@ et @@ shot @@ extra :
     date \in dates, et \in EntryTypeChoices, shot \in ShotChoices(shots),
     extra \in extras}

\* an entry of the variant the record type asks for
GoodEntry(type, date, time) ==
  [entry_type |-> Str(InferredEntryType(Str(type))), date |-> date]
    @@ CASE type = "completed_at_difficulty" -> "difficulty" :> Str("Hard")
         [] type \in {"fastest_time", "longest_time"} -> "time" :> time
         [] type \in {"high_score", "low_score"} -> "score" :> Num(7)
         [] OTHER -> EmptyDict

\* records: null, empty, one entry, or a good entry followed by one entry
RecordLists(good, entries, pairs) ==
  {Null, List(<< >>)}
    \cup {List(<<e>>) : e \in entries}
    \cup (IF pairs THEN {List(<<good, e>>) : e \in entries} ELSE {})

RecordTypes(entries, date, time, pairs) ==
  {[name |-> Str("Runs"), type |-> Str(type)] : type \in RecordTypeOptions}
    \cup UNION {{[name |-> Str("Runs"), type |-> Str(type), records |-> records] :
                    records \in RecordLists(GoodEntry(type, date, time), entries, pairs)} :
                 type \in RecordTypeOptions}

Games(record_types) ==
  {[name |-> Str("Hades"), difficulties |-> difficulties, record_types |-> rts] :
     difficulties \in {Null, List(<< >>), List(<<Str("Normal"), Str("Hard")>>),
                       List(<<Str("Hard"), Str("Hard")>>)},
     rts \in {Null, List(<< >>)} \cup {List(<<rt>>) : rt \in record_types}}

\* the JSON values of the generated ledger files
FileDates == {DateStr(20240101)}
FileEntries ==
  Entries(FileDates, {ShotA, ShotMissing},
          ExtraChoices(DurationStr(90)) \cup BadExtraChoices(DurationStr(90)))
FileData ==
  {Json([games |-> List(<<game>>)]) :
     game \in Games(RecordTypes(FileEntries, DateStr(20240101), DurationStr(90), TRUE))}

\* the mappings of the documents constructed in memory
MemoryDates ==
  {DateObj(20240101)} \cup {DateTimeObj(20240101, tod) : tod \in 0..MaxTod}
MemoryEntries ==
  Entries(MemoryDates, {ShotBack, ShotSlash}, ExtraChoices(TimedeltaObj(90)))
MemoryData ==
  {[games |-> List(<<game>>)] :
     game \in Games(RecordTypes(MemoryEntries, DateObj(20240101), TimedeltaObj(90), FALSE))}

Built(kwargs, r, dir) ==
  [st |-> "built", kwargs |-> kwargs, ok |-> r.ok,
   exc |-> IF r.ok THEN "none" ELSE r.exc,
   doc |-> IF r.ok THEN r.val ELSE Null, dir |-> dir, saved |-> FALSE]

\* a ledger on disk that a save overwrites
PreviousLedger == JsonData(<<Tetris>>)

\* RecordData(**kwargs) in the working directory
Construct(kwargs) ==
  /\ pc = "idle"
  /\ mem = NoMem
  /\ file \in {Absent, PreviousLedger}
  /\ mem' = Built(kwargs, ValidateRecordData(kwargs, cwd), cwd)
  /\ UNCHANGED <<file, cwd, pc, ctx, last>>

\* record_data.save(filename) of the document constructed.
\* open(filename, "w") empties the file; ctx.pending keeps what it held.
SaveOpen ==
  /\ pc = "idle"
  /\ mem.st = "built" /\ mem.ok /\ ~mem.saved
  /\ pc' = "saving"
  /\ ctx' = [NoCtx EXCEPT !.pending = file]
  /\ file' = Partial
  /\ UNCHANGED <<cwd, last, mem>>

\* json.dump writes the whole text and the with block closes the file
SaveDump ==
  /\ pc = "saving"
  /\ file' = SaveResult(mem.doc)
  /\ mem' = [mem EXCEPT !.saved = TRUE]
  /\ Finish(Outcome("save", "none", "none", Null, ctx.pending, cwd, TRUE, "none", Null))
  /\ UNCHANGED cwd

\* the write fails partway (the disk is full): the OSError leaves save
\* and the file stays as far as it was written
SaveFails ==
  /\ pc = "saving"
  /\ Finish(Outcome("save", "raised", "OSError", Null, ctx.pending, cwd, TRUE, "none",
                    Null))
  /\ UNCHANGED <<file, cwd, mem>>

Save == SaveOpen \/ SaveDump \/ SaveFails

InitV ==
  /\ file \in FileData \cup {Absent, PreviousLedger}
  /\ cwd \in Dirs
  /\ pc = "idle"
  /\ ctx = NoCtx
  /\ last = NoOutcome
  /\ mem = NoMem

NextV ==
  \/ (file # Absent /\ Load)
  \/ \E kwargs \in MemoryData : Construct(kwargs)
  \/ Save

SpecV == InitV /\ [][NextV]_vars

----------------------------------------------------------------------------
\* RecordData._parse_time_input on typed texts.

MaxTimeLen == 4

TimeChars == {"0", "1", "5", ":", "h", "m", "s", "x"}

\* every text of at most MaxTimeLen of these characters
ShortTimeTexts == UNION {[1..n -> TimeChars] : n \in 0..MaxTimeLen}

\* longer texts: the forms at their limits, forms with a part too long or
\* too short, upper case, spaces around, components out of order
LongTimeTexts ==
  {<<"0", ":", "0", "0", ":", "0", "1">>,
   <<"2", "3", ":", "5", "9", ":", "5", "9">>, <<"0", ":", "3", "0">>,
   <<"1", "2", "0", ":", "0", "0">>, <<"2", "h", "3", "0", "m">>,
   <<"1", "h", "3", "0", "m", "4", "5", "s">>, <<"9", "0", "m">>,
   <<"5", "4", "0", "0", "s">>, <<"1", "2", ":", "X", "X", ":", "3", "4">>,
   <<"1", "x", "2", "y", "3", "z">>, <<"i", "n", "v", "a", "l", "i", "d">>,
   <<"a", "b", "c">>, <<"3", "0", "m", "2", "h">>,
   <<"2", "H", "3", "0", "M">>, <<" ", "1", ":", "3", "0", " ">>,
   <<"1", ":", "2", ":", "3">>, <<"1", "2", "3", "4", ":", "0", "0">>,
   <<"1", "2", "3", ":", "0", "0", ":", "0", "0">>,
   <<"1", ":", "3", "0", ":", "0", "0">>,
   <<"1", ":", "9", "9", ":", "9", "9">>, <<"0", "h">>,
   <<"4", "5", "s", "1">>, LongDigits}

TimeInputs == ShortTimeTexts \cup LongTimeTexts

\* a text typed, then what _parse_time_input made of it
Typed(text) == [st |-> "typed", text |-> text]
ParsedAs(text, r) == [st |-> "parsed", text |-> text, res |-> r]

ParseTime ==
  /\ mem.st = "typed"
  /\ mem' = ParsedAs(mem.text, _parse_time_input(mem.text))
  /\ UNCHANGED <<file, cwd, pc, ctx, last>>

InitT ==
  /\ file = Absent
  /\ cwd = DocDir
  /\ pc = "idle"
  /\ ctx = NoCtx
  /\ last = NoOutcome
  /\ mem \in {Typed(text) : text \in TimeInputs}

NextT == ParseTime

SpecT == InitT /\ [][NextT]_vars

----------------------------------------------------------------------------
\* Properties

\* the documents validation has accepted: the one load returned last and
\* the one constructed in memory
AcceptedDocuments ==
  (IF last.op = "load" /\ last.ret = "doc" THEN {last.val} ELSE {})
    \cup (IF mem.st = "built" /\ mem.ok THEN {mem.doc} ELSE {})

GamesOf(doc) == Range(doc.games.v)
RecordTypesIn(game) ==
  IF game.record_types.t = "null" THEN {} ELSE Range(game.record_types.v)
EntriesIn(rt) == IF rt.records.t = "null" THEN {} ELSE Range(rt.records.v)

\* the items of the list under key of an input mapping, none when the key
\* is absent or null
RawList(d, key) == IF Has(d, key) /\ d[key].t = "list" THEN Range(d[key].v) ELSE {}

\* the number of games named name in the file contents f
CountNamed(f, name) ==
  Cardinality({i \in DOMAIN f.value["games"].v : f.value["games"].v[i]["name"] = name})

\* C1: when add_record_to_file builds an entry or a post-append document
\* that fails validation, it returns False and the file's contents are what
\* they were before the call.
C1_FailedRecordLeavesFile ==
  (last.op = "add_record" /\ last.reval = "failed")
    => (last.ret = "False" /\ ~last.wrote /\ file = last.pre)

\* add_record_to_file reached its step 4 on a file load accepted, the
\* entry failed validation and the file is as before
C1_Witness ==
  /\ last.op = "add_record" /\ last.reval = "failed" /\ last.ret = "False"
  /\ last.pre.kind = "json" /\ file = last.pre

\* C2: add_game_to_file writes the file only after the complete document
\* with the new game re-validated; when the re-validation fails nothing is
\* written and the file keeps its contents (or stays absent).
C2_WriteOnlyAfterRevalidation ==
  last.op = "add_game"
    => /\ last.wrote => last.reval = "ok"
       /\ last.reval = "failed" => (~last.wrote /\ file = last.pre)
       /\ ~last.wrote => file = last.pre

\* add_game_to_file raised from the re-validation and the file is as before
C2_Witness ==
  /\ last.op = "add_game" /\ last.reval = "failed" /\ last.ret = "raised"
  /\ ~last.wrote /\ file = last.pre

\* the outcome recorded for a call on a file that loaded as loaded and
\* already holds a game of the name given
DuplicateRefused(loaded) ==
  (loaded.ok /\ last.arg \in Range(GameNames(loaded.val)))
    => (last.ret = "False" /\ ~last.wrote /\ file = last.pre)

\* C3: on a file load accepts that holds a game named X exactly,
\* add_game_to_file(X, f) returns False and writes nothing; after a call
\* that added X the file holds exactly one game named X.
C3_DuplicateGameRefused ==
  last.op = "add_game"
    => /\ DuplicateRefused(LoadResult(last.pre))
       /\ last.ret = "True" => CountNamed(file, last.arg) = 1

\* add_game_to_file returned False for a name the file holds, the file
\* unchanged with one game of that name
C3_Witness ==
  /\ last.op = "add_game" /\ last.ret = "False" /\ file = last.pre
  /\ CountNamed(file, last.arg) = 1

\* C4: a RecordType of type completed holding a Timed or a Scored entry is
\* rejected, constructed in memory or loaded with the entry_type stated:
\* no accepted document holds such a record type.
C4_CompletedRejectsTimedAndScored ==
  \A doc \in AcceptedDocuments : \A game \in GamesOf(doc) :
    \A rt \in RecordTypesIn(game) :
      rt.type.s = "completed"
        => \A e \in EntriesIn(rt) :
             ClassOf(e) \notin {"TimeRecordEntry", "ScoreRecordEntry"}

\* an input mapping with a game that lists its difficulties and holds a
\* completed_at_difficulty record type with an entry whose difficulty is
\* not in the list
RawDifficultyMismatch(d) ==
  \E game \in RawList(d, "games") :
    /\ Has(game, "difficulties") /\ game["difficulties"].t = "list"
    /\ \E rt \in RawList(game, "record_types") :
         /\ Get(rt, "type") = Str("completed_at_difficulty")
         /\ \E e \in RawList(rt, "records") :
              /\ Has(e, "difficulty")
              /\ e["difficulty"] \notin Range(game["difficulties"].v)

\* C5: for a game whose difficulties are present, validation fails when an
\* entry of one of its completed_at_difficulty record types has a
\* difficulty outside the list; in every accepted document each such
\* entry's difficulty is one of its game's difficulties.
C5_DifficultyIsListed ==
  /\ \A doc \in AcceptedDocuments : \A game \in GamesOf(doc) :
       game.difficulties.t = "list"
         => \A rt \in RecordTypesIn(game) :
              rt.type.s = "completed_at_difficulty"
                => \A e \in EntriesIn(rt) :
                     e["difficulty"] \in Range(game.difficulties.v)
  /\ (last.op = "load" /\ last.pre.kind = "json" /\ RawDifficultyMismatch(last.pre.value)) => last.ret = "raised"
  /\ (mem.st = "built" /\ RawDifficultyMismatch(mem.kwargs)) => ~mem.ok

\* a ledger whose one fault is the difficulty Nightmare in a game that
\* lists Normal and Hard
NightmareLedger ==
  Json([games |-> List(<<
    [name |-> Str("Hades"),
     difficulties |-> List(<<Str("Normal"), Str("Hard")>>),
     record_types |-> List(<<
       [name |-> Str("Runs"), type |-> Str("completed_at_difficulty"),
        records |-> List(<<
          ("date" :> DateStr(20240101))
            @@ ("entry_type" :> Str("completed_at_difficulty"))
            @@ ("difficulty" :> Str("Nightmare"))>>)]>>)]>>)])

\* load rejected the ledger with the unlisted difficulty
C5_Witness ==
  /\ last.op = "load" /\ last.pre = NightmareLedger
  /\ last.ret = "raised" /\ last.exc = "ValidationError"

\* C6: a game whose difficulties are absent is accepted only if none of
\* its completed_at_difficulty record types holds an entry.
C6_NoDifficultiesNoDifficultyEntries ==
  \A doc \in AcceptedDocuments : \A game \in GamesOf(doc) :
    game.difficulties.t = "null"
      => \A rt \in RecordTypesIn(game) :
           rt.type.s = "completed_at_difficulty" => EntriesIn(rt) = {}

\* the types whose entries must be of one subclass
VariantTypes == RecordTypeOptions \ {"completed"}

\* an input mapping with a record type of one of these types holding an
\* entry that states another entry_type than the one mapped from the type
RawVariantMismatch(d) ==
  \E game \in RawList(d, "games") : \E rt \in RawList(game, "record_types") :
    /\ Has(rt, "type") /\ rt["type"].s \in VariantTypes
    /\ \E e \in RawList(rt, "records") :
         /\ Has(e, "entry_type")
         /\ e["entry_type"] # Str(TagOf(ExpectedClass(rt["type"].s)))

\* C7: a record type of type completed_at_difficulty, fastest_time,
\* longest_time, high_score or low_score is accepted only if every entry is
\* of the class mapped from the type; one entry of another class makes the
\* validation of the whole document fail.
C7_EntriesMatchType ==
  /\ \A doc \in AcceptedDocuments : \A game \in GamesOf(doc) :
       \A rt \in RecordTypesIn(game) :
         rt.type.s \in VariantTypes
           => \A e \in EntriesIn(rt) : ClassOf(e) = ExpectedClass(rt.type.s)
  /\ (last.op = "load" /\ last.pre.kind = "json" /\ RawVariantMismatch(last.pre.value)) => last.ret = "raised"
  /\ (mem.st = "built" /\ RawVariantMismatch(mem.kwargs)) => ~mem.ok

\* a ledger whose fastest_time record type holds a Timed entry followed by
\* a Scored entry, each valid by itself
MixedLedger ==
  Json([games |-> List(<<
    [name |-> Str("Hades"), difficulties |-> Null,
     record_types |-> List(<<
       [name |-> Str("Runs"), type |-> Str("fastest_time"),
        records |-> List(<<
          GoodEntry("fastest_time", DateStr(20240101), DurationStr(90)),
          ("date" :> DateStr(20240101)) @@ ("entry_type" :> Str("score"))
            @@ ("score" :> Num(42))>>)]>>)]>>)])

\* load rejected the ledger with the one mismatching entry
C7_Witness ==
  /\ last.op = "load" /\ last.pre = MixedLedger
  /\ last.ret = "raised" /\ last.exc = "ValidationError"

\* an input mapping with a record type whose records are absent or null
RawNullRecords(d) ==
  \E game \in RawList(d, "games") : \E rt \in RawList(game, "record_types") :
    Get(rt, "records") = Null

\* for every record type of a document, whether its records are null,
\* the empty list or a list with entries
RecordsState(rt) ==
  IF rt.records.t = "null" THEN "null"
  ELSE IF rt.records.v = << >> THEN "empty" ELSE "some"
RecordsStates(doc) ==
  [i \in DOMAIN doc.games.v |->
     IF doc.games.v[i].record_types.t = "null"
     THEN << >>
     ELSE [j \in DOMAIN doc.games.v[i].record_types.v |->
             RecordsState(doc.games.v[i].record_types.v[j])]]

\* C8: a record type constructed or loaded with records absent (null)
\* passes validation for every type, and null stays null through save and
\* load as the empty list stays the empty list.
C8_NullRecordsAccepted ==
  /\ (mem.st = "built" /\ RawNullRecords(mem.kwargs)) => mem.ok
  /\ (last.op = "load" /\ last.pre.kind = "json" /\ RawNullRecords(last.pre.value)) => last.ret = "doc"
  /\ (mem.st = "built" /\ mem.saved /\ last.op = "load" /\ last.ret = "doc")
       => RecordsStates(last.val) = RecordsStates(mem.doc)

\* C9: for every document validation accepts, loading the file it was
\* saved to gives a document equal to it.
C9_LoadOfSaveIsIdentity ==
  (mem.st = "built" /\ mem.saved /\ last.op = "load")
    => (last.ret = "doc" /\ last.val = mem.doc)

\* C10: after load returns or raises, the working directory is the one
\* before the call.
C10_LoadRestoresCwd ==
  last.op = "load" => cwd = last.precwd

\* the two kinds of failure of load
StructuralErrors == {"JSONDecodeError", "TypeError"}
SchemaErrors == {"ValidationError"}

\* the file's bytes are JSON and the top-level value is an object
IsJsonObject(f) == f.kind = "json" /\ IsDict(f.value)

\* C11: every failure of load on a file is a structural error when the
\* bytes are not JSON or the top-level value is not an object, and a schema
\* validation error when they are a JSON object violating the schema (a
\* record type whose records is null included); nothing else escapes.
C11_LoadFailsInTwoKinds ==
  (last.op = "load" /\ last.ret = "raised" /\ last.pre.kind # "absent")
    => IF IsJsonObject(last.pre)
       THEN last.exc \in SchemaErrors
       ELSE last.exc \in StructuralErrors

\* In the document after, which has the games, record types and entries of
\* the JSON object before at the same positions, every entry of a record
\* type of one of the six types has the entry_type the entry before states
\* or, when it states none, the one mapped from the record type's type.
EntryTypesInferred(before, after) ==
  \A i \in DOMAIN before["games"].v :
    LET game == before["games"].v[i]
    IN (Has(game, "record_types") /\ game["record_types"].t = "list") =>
         \A j \in DOMAIN game["record_types"].v :
           LET rt == game["record_types"].v[j]
           IN (/\ Has(rt, "records") /\ rt["records"].t = "list"
               /\ Has(rt, "type") /\ rt["type"].s \in RecordTypeOptions) =>
                \A k \in DOMAIN rt["records"].v :
                  LET e == rt["records"].v[k]
                      e2 == after["games"].v[i]["record_types"].v[j]["records"].v[k]
                  IN /\ Has(e2, "entry_type")
                     /\ e2["entry_type"] =
                          IF Has(e, "entry_type")
                          THEN e["entry_type"]
                          ELSE Str(TagOf(ExpectedClass(rt["type"].s)))

PreprocessedWithEntryTypes(before, pre) ==
  pre.ok /\ EntryTypesInferred(before, pre.val)

\* C12: on load every stored entry without entry_type gets, before the
\* validation, the one derived from its record type's type, and a stated
\* entry_type is not changed; the document load returns has them.
C12_EntryTypeInferredOnLoad ==
  (last.op = "load" /\ IsJsonObject(last.pre))
    => /\ PreprocessedWithEntryTypes(last.pre.value,
                                     _preprocess_json_data(last.pre.value))
       /\ last.ret = "doc" => EntryTypesInferred(last.pre.value, last.val)

\* an older ledger: a longest_time record type whose entry states no
\* entry_type
OlderLedger ==
  Json([games |-> List(<<
    [name |-> Str("Hades"), difficulties |-> Null,
     record_types |-> List(<<
       [name |-> Str("Runs"), type |-> Str("longest_time"),
        records |-> List(<<
          ("date" :> DateStr(20240101)) @@ ("time" :> DurationStr(90))>>)]>>)]>>)])

\* load returned the older ledger's document, its entry a Timed one
C12_Witness ==
  /\ last.op = "load" /\ last.pre = OlderLedger /\ last.ret = "doc"
  /\ ClassOf(last.val.games.v[1].record_types.v[1].records.v[1]) = "TimeRecordEntry"

\* the entry_type an entry of record type rt is validated under: the one
\* it states, else the one load derives from the record type's type
EntryTagIn(rt, e) ==
  IF Has(e, "entry_type") THEN e["entry_type"].s
  ELSE TagOf(ExpectedClass(rt["type"].s))

\* an input mapping with an entry carrying a key its class does not define
RawUndefinedField(d) ==
  \E game \in RawList(d, "games") : \E rt \in RawList(game, "record_types") :
    \E e \in RawList(rt, "records") :
      /\ EntryTagIn(rt, e) \in EntryTags
      /\ ~(DOMAIN e \subseteq FieldsOf(ClassOfTag(EntryTagIn(rt, e))))

\* C13: validation rejects every entry that carries a field not defined
\* for its variant, an unknown key or another variant's field; an accepted
\* entry has the fields of its class and no other.
C13_UndefinedFieldsRejected ==
  /\ (last.op = "load" /\ last.pre.kind = "json" /\ RawUndefinedField(last.pre.value)) => last.ret = "raised"
  /\ (mem.st = "built" /\ RawUndefinedField(mem.kwargs)) => ~mem.ok
  /\ \A doc \in AcceptedDocuments : \A game \in GamesOf(doc) :
       \A rt \in RecordTypesIn(game) : \A e \in EntriesIn(rt) :
         DOMAIN e = FieldsOf(ClassOf(e))

\* a ledger whose fastest_time record type holds a Timed entry that also
\* carries a score
ExtraFieldLedger ==
  Json([games |-> List(<<
    [name |-> Str("Hades"), difficulties |-> Null,
     record_types |-> List(<<
       [name |-> Str("Runs"), type |-> Str("fastest_time"),
        records |-> List(<<
          ("date" :> DateStr(20240101)) @@ ("entry_type" :> Str("time"))
            @@ ("time" :> DurationStr(90)) @@ ("score" :> Num(42))>>)]>>)]>>)])

\* load rejected the ledger with the Timed entry carrying a score
C13_Witness ==
  /\ last.op = "load" /\ last.pre = ExtraFieldLedger
  /\ last.ret = "raised" /\ last.exc = "ValidationError"

\* the ledger add_game_to_file is to create for a name: one game of that
\* name, difficulties and record_types null
FreshLedger(name) ==
  Json([games |-> List(<<[name |-> name, difficulties |-> Null,
                          record_types |-> Null]>>)])

\* the file is the fresh ledger of the name and load accepts it
CreatedFresh(name, loaded) ==
  /\ file = FreshLedger(name)
  /\ loaded.ok
  /\ loaded.val = [games |-> List(<<[name |-> name, difficulties |-> Null,
                                      record_types |-> Null]>>)]

\* C14: with no file at the path, add_game_to_file(name, path,
\* interactive=False) returns True and creates a file with exactly one
\* game, of that name, difficulties null and record_types null, which load
\* accepts.
C14_AddGameCreatesLedger ==
  (last.op = "add_game" /\ last.pre = Absent)
    => (last.ret = "True" /\ last.wrote /\ CreatedFresh(last.arg, LoadResult(file)))

\* add_game_to_file ran on an absent file and the file now exists
C14_Witness ==
  /\ last.op = "add_game" /\ last.pre = Absent /\ last.ret = "True"
  /\ file = FreshLedger(Str("Celeste"))

\* the call on a ledger that loaded as before, without a game of the name,
\* returned True and the ledger now loads, as after, with the games of
\* before in their order followed by one new game of the name
AppendedOneGame(before, after) ==
  (before.ok /\ last.arg \notin Range(GameNames(before.val)))
    => /\ last.ret = "True"
       /\ after.ok
       /\ after.val.games.v =
            Append(before.val.games.v,
                   [name |-> last.arg, difficulties |-> Null, record_types |-> Null])

\* C15: for a file load accepts that has no game named N,
\* add_game_to_file(N, f, interactive=False) returns True and the file's
\* games are then the previous games, unchanged and in order, followed by
\* one new game named N.
C15_AddGameAppends ==
  last.op = "add_game" => AppendedOneGame(LoadResult(last.pre), LoadResult(file))

\* The JSON value new is the JSON value old with one entry more at the end
\* of the records of record type ri of game gi, of the entry_type mapped
\* from the record type's type, and nothing else changed.
OneEntryAppended(old, new, gi, ri) ==
  LET rt == old["games"].v[gi]["record_types"].v[ri]
      records == new["games"].v[gi]["record_types"].v[ri]["records"].v
  IN /\ Len(records) = Len(rt["records"].v) + 1
     /\ records[Len(records)]["entry_type"] = Str(TagOf(ExpectedClass(rt["type"].s)))
     /\ new = [old EXCEPT !["games"].v[gi]["record_types"].v[ri]["records"] =
                 List(Append(rt["records"].v, records[Len(records)]))]

\* the file written is the saved form of the document before with one
\* entry appended at the place selected
WroteOneEntryMore(before) ==
  /\ before.ok
  /\ last.at.gi \in DOMAIN before.val.games.v
  /\ OneEntryAppended(SaveResult(before.val).value, file.value, last.at.gi, last.at.ri)

\* C16: whenever add_record_to_file returns True, the file's document is
\* the document before the call with exactly one entry more, at the end of
\* the records of the record type chosen in the game chosen and of the
\* variant mapped from its type; everything else is unchanged and in place.
C16_AddRecordAppendsOneEntry ==
  (last.op = "add_record" /\ last.ret = "True")
    => (last.wrote /\ WroteOneEntryMore(LoadResult(last.pre)))

\* add_record_to_file returned True on the ledger with one entry stored,
\* which now has two
C16_Witness ==
  /\ last.op = "add_record" /\ last.ret = "True" /\ last.pre = JsonData(<<Portal>>)
  /\ Len(file.value["games"].v[1]["record_types"].v[1]["records"].v) = 2

\* the record type a finished add_record_to_file call had selected, in the
\* JSON value of the file before the call, and its game
ChosenGame == last.pre.value["games"].v[last.at.gi]
ChosenRecordType == ChosenGame["record_types"].v[last.at.ri]
ChoseRecordType == last.op = "add_record" /\ last.at.gi > 0 /\ last.at.ri > 0

\* the entry a call that returned True wrote
WrittenEntry ==
  LET records ==
        file.value["games"].v[last.at.gi]["record_types"].v[last.at.ri]["records"].v
  IN records[Len(records)]

\* C17: an entry add_record_to_file writes into a completed_at_difficulty
\* record type has a difficulty from the chosen game's difficulties list;
\* if the game declares no difficulties the call returns False and the
\* file is unchanged.
C17_WrittenDifficultyIsListed ==
  (ChoseRecordType /\ ChosenRecordType["type"] = Str("completed_at_difficulty"))
    => /\ last.ret = "True"
            => /\ Get(ChosenGame, "difficulties").t = "list"
               /\ WrittenEntry["difficulty"] \in Range(ChosenGame["difficulties"].v)
       /\ Falsy(Get(ChosenGame, "difficulties"))
            => (last.ret = "False" /\ ~last.wrote /\ file = last.pre)

\* an entry with the difficulty Hard was written for the game that lists
\* Normal and Hard
C17_Witness ==
  /\ ChoseRecordType /\ last.pre = JsonData(<<Hades>>) /\ last.at.ri = 1
  /\ last.ret = "True" /\ WrittenEntry["difficulty"] = Str("Hard")


\* answers that read q once stripped and lowered
CancelTexts == {<<"q">>, <<"Q">>, <<" ", "q">>}

\* the call returned False from the state it was in, nothing written
AbortedHere ==
  /\ pc' = "idle"
  /\ last'.op = "add_record" /\ last'.ret = "False" /\ ~last'.wrote
  /\ last'.at.stage = pc
  /\ file' = file

CancelStep ==
  \A text \in CancelTexts :
    (SelectGame(text) \/ SelectRecordType(text) \/ CollectDate(text)) => AbortedHere

\* C18: the answer q at game selection, at record-type selection or at the
\* date prompt ends add_record_to_file at once: it returns False, no later
\* step is prompted and the file is unchanged.
C18_CancelAborts == [][CancelStep]_vars

\* the call ended at the date prompt, which only the answer q does
C18_Witness ==
  /\ last.op = "add_record" /\ last.ret = "False" /\ last.at.stage = "date"
  /\ last.at.ri > 0 /\ file = last.pre /\ pc = "idle"


\* the call found nothing to add a record to: the load raised or the
\* document has no games
NothingToAddTo(loaded) == ~loaded.ok \/ loaded.val.games.v = << >>

\* the call returned False before its first prompt and left the file alone
RefusedBeforePrompt ==
  /\ last.ret = "False" /\ ~last.wrote
  /\ last.at.stage = "idle" /\ last.at.gi = 0
  /\ file = last.pre

\* C19: add_record_to_file returns False, creating or modifying no file
\* and asking nothing, when the file does not exist, when loading it fails
\* or when the loaded document has no games.
C19_NothingToAddToRefused ==
  (last.op = "add_record"
     /\ (last.pre = Absent \/ NothingToAddTo(LoadResult(last.pre))))
    => RefusedBeforePrompt

\* a call on a loadable ledger without games
C19_Witness ==
  /\ last.op = "add_record" /\ last.pre = JsonData(<< >>)
  /\ LoadResult(last.pre).ok /\ RefusedBeforePrompt


\* the game a finished add_record_to_file call had selected has no record
\* types in the file the call read
ChoseGameWithoutRecordTypes ==
  /\ last.op = "add_record" /\ last.at.gi > 0
  /\ Falsy(Get(last.pre.value["games"].v[last.at.gi], "record_types"))

\* the call returned False at game selection
RefusedAtGameSelection ==
  /\ last.ret = "False" /\ ~last.wrote
  /\ last.at.stage = "select_game" /\ last.at.ri = 0
  /\ file = last.pre

\* a prompt after game selection is open
PromptingPastGame == pc \notin {"idle", "select_game"}

\* C20: when the game selected in add_record_to_file has no record types
\* (none given, or an empty list) the call returns False right after game
\* selection: no record type and no record detail is asked for, and the
\* file is unchanged.
C20_NoRecordTypesRefused ==
  /\ ChoseGameWithoutRecordTypes => RefusedAtGameSelection
  /\ PromptingPastGame => ~Falsy(selected_game.record_types)

\* the first of two games, which has no record types, was selected
C20_Witness ==
  /\ ChoseGameWithoutRecordTypes /\ RefusedAtGameSelection
  /\ last.pre = JsonData(<<Celeste, Hades>>) /\ last.at.gi = 1


\* the call returned False in the step that started it, nothing written
ReturnedFalseAtOnce ==
  /\ pc' = "idle"
  /\ last'.op = "add_record" /\ last'.ret = "False" /\ ~last'.wrote
  /\ last'.at.stage = "idle"
  /\ file' = file

\* C21: add_record_to_file(filename, interactive=False) returns False and
\* leaves the file as it is whatever the file holds, a valid ledger whose
\* games have record types included; it never adds an entry.
C21_NonInteractiveAddsNothing == [][AddRecordStart(FALSE) => ReturnedFalseAtOnce]_vars

\* a call on a loadable ledger whose game has record types returned False
\* before any prompt, which only a call that is not interactive does
C21_Witness ==
  /\ last.op = "add_record" /\ last.ret = "False" /\ last.at.stage = "idle"
  /\ last.pre = JsonData(<<Hades>>) /\ file = last.pre /\ pc = "idle"


\* C22: an error raised when add_game_to_file or add_record_to_file
\* validates the document again after changing it never reaches the
\* caller as an exception: the call returns False and the file keeps its
\* contents.
C22_RevalidationErrorsCaught ==
  (last.op \in {"add_game", "add_record"} /\ last.reval = "failed")
    => (last.ret = "False" /\ last.exc = "none" /\ file = last.pre)


\* The four forms of a time, as texts: t[a..b] is a run of digits
Digits(t, a, b) == a <= b /\ \A i \in a..b : t[i] \in DigitChars
Number(t, a, b) == ToInt(SubSeq(t, a, b))

\* H:MM:SS with one or two digits of hours; h is the number of them
IsHMS(t, h) ==
  /\ h \in 1..2 /\ Len(t) = h + 6
  /\ Digits(t, 1, h) /\ t[h + 1] = ":" /\ Digits(t, h + 2, h + 3)
  /\ t[h + 4] = ":" /\ Digits(t, h + 5, h + 6)

SecondsHMS(t, h) ==
  3600 * Number(t, 1, h) + 60 * Number(t, h + 2, h + 3) + Number(t, h + 5, h + 6)

\* M:SS with one to three digits of minutes; m is the number of them
IsMS(t, m) ==
  /\ m \in 1..3 /\ Len(t) = m + 3
  /\ Digits(t, 1, m) /\ t[m + 1] = ":" /\ Digits(t, m + 2, m + 3)

SecondsMS(t, m) == 60 * Number(t, 1, m) + Number(t, m + 2, m + 3)

\* t[a..b] is nothing, or digits followed by the unit
IsPart(t, a, b, unit) == a > b \/ (Digits(t, a, b - 1) /\ t[b] = unit)
PartValue(t, a, b) == IF a > b THEN 0 ELSE Number(t, a, b - 1)

\* hours, minutes and seconds components in that order, at least one:
\* the hours end at i and the minutes at j
IsCompound(t, i, j) ==
  /\ 0 <= i /\ i <= j /\ j <= Len(t) /\ Len(t) > 0
  /\ IsPart(t, 1, i, "h") /\ IsPart(t, i + 1, j, "m") /\ IsPart(t, j + 1, Len(t), "s")

SecondsCompound(t, i, j) ==
  3600 * PartValue(t, 1, i) + 60 * PartValue(t, i + 1, j) + PartValue(t, j + 1, Len(t))

Cuts(t) == {c \in (0..Len(t)) \X (0..Len(t)) : IsCompound(t, c[1], c[2])}

\* the duration the first form that matches t gives, in seconds; the unit
\* letters of the compound form are read in either case
ExpectedSeconds(t) ==
  IF \E h \in 1..2 : IsHMS(t, h) THEN SecondsHMS(t, Len(t) - 6)
  ELSE IF \E m \in 1..3 : IsMS(t, m) THEN SecondsMS(t, Len(t) - 3)
  ELSE IF Cuts(Lower(t)) # {}
  THEN LET c == CHOOSE c \in Cuts(Lower(t)) : TRUE
       IN SecondsCompound(Lower(t), c[1], c[2])
  ELSE Number(t, 1, Len(t))

MatchesAForm(t) ==
  \/ \E h \in 1..2 : IsHMS(t, h)
  \/ \E m \in 1..3 : IsMS(t, m)
  \/ Cuts(Lower(t)) # {}
  \/ Digits(t, 1, Len(t))

ReturnedSeconds(res, seconds) == res.ok /\ res.val = TimedeltaObj(seconds)

\* C23: _parse_time_input returns the duration of the first of the forms
\* H:MM:SS, M:SS, compound h/m/s and bare integer that the text matches:
\* 3600*H+60*MM+SS, 60*M+SS, 3600*h+60*m+s or the integer, in seconds.
C23_ParsedAsFirstForm ==
  (mem.st = "parsed" /\ MatchesAForm(Strip(mem.text)))
    => (mem.res.ok /\ ReturnedSeconds(mem.res, ExpectedSeconds(Strip(mem.text))))

\* the same for the texts short enough for timedelta to hold every
\* component
ParsedAsFirstFormInRange ==
  (mem.st = "parsed" /\ MatchesAForm(Strip(mem.text))
     /\ Len(mem.text) <= TimedeltaMaxDigits)
    => (mem.res.ok /\ ReturnedSeconds(mem.res, ExpectedSeconds(Strip(mem.text))))

\* C24: _parse_time_input raises ValueError and returns no duration for
\* every text that matches none of the four forms.
C24_OtherTextsRaiseValueError ==
  (mem.st = "parsed" /\ ~MatchesAForm(Strip(mem.text)))
    => mem.res = Raise("ValueError")

\* the compound form with its components out of order was refused
C24_Witness ==
  /\ mem.st = "parsed" /\ mem.text = <<"3", "0", "m", "2", "h">>
  /\ ~MatchesAForm(mem.text) /\ mem.res = Raise("ValueError")


\* what the validate command did for a file load accepts or not
ValidateExits(loaded) ==
  /\ last.arg = Null
       => /\ ExitCode(last) = 0
          /\ last.ret = (IF loaded.ok THEN "valid" ELSE "not valid")
  /\ (last.arg # Null /\ ~loaded.ok) => ExitCode(last) # 0

\* C26: validate without --raise_error ends with exit code 0 for every
\* file (valid, invalid for the schema, not JSON, missing) and reports it
\* as valid or not valid; with --raise_error a file that fails to load
\* makes it end with an exit code other than 0.
C26_ValidateExitCodes ==
  last.op = "validate" => (file = last.pre /\ ValidateExits(LoadResult(last.pre)))

\* validate without the flag on a file that is not JSON reported it as
\* not valid
C26_Witness ==
  /\ last.op = "validate" /\ last.arg = Null /\ last.pre = Garbage
  /\ last.ret = "not valid" /\ ExitCode(last) = 0


\* the file is not there or load accepts it
AbsentOrLoadable(f) == f = Absent \/ LoadResult(f).ok

\* C27: from an absent file or one that load accepts, after any
\* add_game_to_file or add_record_to_file call, whatever its outcome, the
\* file, if there is one, is accepted by load.
C27_FileStaysLoadable ==
  (last.op \in {"add_game", "add_record"} /\ AbsentOrLoadable(last.pre))
    => AbsentOrLoadable(file)


\* the names of the games in the file, as written
StoredNames == [i \in DOMAIN file.value["games"].v |-> file.value["games"].v[i]["name"]]

PairwiseDistinct(names) ==
  \A i, j \in DOMAIN names : i # j => names[i] # names[j]

\* C25: in a ledger built from nothing by add_game_to_file calls, with
\* names repeated or not, no two games have the same name, compared as
\* exact text.
C25_GameNamesDistinct == file # Absent => PairwiseDistinct(StoredNames)

\* two games are stored and a call with the name of one of them has just
\* been refused
C25_Witness ==
  /\ file # Absent /\ Len(StoredNames) = 2 /\ PairwiseDistinct(StoredNames)
  /\ last.op = "add_game" /\ last.ret = "False" /\ last.arg \in Range(StoredNames)


\* the field an entry of each variant carries besides the common ones
VariantField(tag) ==
  CASE tag = "completed_at_difficulty" -> {"difficulty"}
    [] tag = "time" -> {"time"}
    [] tag = "score" -> {"score"}
    [] OTHER -> {}

\* the stored entry e is of the variant mapped from the type of rt
StoredVariantMatches(rt, e) ==
  /\ Get(e, "entry_type") = Str(InferredEntryType(rt["type"]))
  /\ DOMAIN e \cap {"difficulty", "time", "score"}
       = VariantField(InferredEntryType(rt["type"]))

\* the stored entry e, if it is a completion at a difficulty, names one of
\* the difficulties of game
StoredDifficultyListed(game, e) ==
  Get(e, "entry_type") = Str("completed_at_difficulty")
    => /\ Get(game, "difficulties").t = "list"
       /\ Get(game, "difficulties").v # << >>
       /\ Get(e, "difficulty") \in Range(game["difficulties"].v)

StoredRulesHold(d) ==
  \A game \in RawList(d, "games") : \A rt \in RawList(game, "record_types") :
    \A e \in RawList(rt, "records") :
      StoredVariantMatches(rt, e) /\ StoredDifficultyListed(game, e)

\* C28: in a ledger built from nothing by add_game_to_file calls,
\* interactive or not, and interactive add_record_to_file calls, whatever
\* is typed, every entry is of the variant mapped from its record type's
\* type and every completed_at_difficulty entry names a difficulty of its
\* game's non-empty list.
C28_BuiltLedgerKeepsRules == file # Absent => StoredRulesHold(file.value)

\* the ledger holds a completion at the difficulty Hard and an entry of
\* another variant
C28_Witness ==
  /\ file # Absent /\ last.op = "add_record" /\ last.ret = "True"
  /\ \E game \in RawList(file.value, "games") :
       /\ \E rt \in RawList(game, "record_types") : \E e \in RawList(rt, "records") :
            Get(e, "difficulty") = Str("Hard")
       /\ \E rt \in RawList(game, "record_types") : \E e \in RawList(rt, "records") :
            Get(e, "entry_type") \in {Str("time"), Str("score")}


\* add_game_to_file with this name on these file contents gives the
\* outcome seen, whichever directory it is called from
SameFromEveryDirectory(game_name, f) ==
  \A wd \in Dirs :
    LET r == AddGameResult(game_name, f, wd)
    IN r.ret = last.ret /\ r.exc = last.exc /\ r.file = file

\* a finished add_game_to_file call on a file load accepts, with a name
\* that is not in it
AddedNewName(loaded) ==
  /\ loaded.ok
  /\ last.arg \notin Range(GameNames(loaded.val))

\* C29: what add_game_to_file does on an existing file does not depend on
\* the working directory: on a document load accepts, screenshots that
\* exist next to it included, and a name not in it, the call returns True
\* and writes the file from every working directory.
C29_AddGameIgnoresCwd ==
  (last.op = "add_game" /\ last.pre # Absent /\ AddedNewName(LoadResult(last.pre)))
    => (last.ret = "True" /\ last.wrote /\ SameFromEveryDirectory(last.arg.s, last.pre))


\* the file holds the whole of one of two documents
HoldsOneOf(previous, doc) == file = previous \/ file = SaveResult(doc)

\* C30: save replaces the contents of the file atomically: while a save
\* call runs and after it, a failed write included, the file holds the
\* complete previous document or the complete new one, never an empty or
\* partial text.
C30_SaveIsAtomic ==
  /\ pc = "saving" => HoldsOneOf(ctx.pending, mem.doc)
  /\ last.op = "save" => HoldsOneOf(last.pre, mem.doc)

----------------------------------------------------------------------------
\* Answers a prompt of add_record_to_file cannot use

\* neither q nor a number of one of the n options
RefusedSelection(text, n) ==
  LET choice == Lower(Strip(text))
  IN choice # <<"q">> /\ ~(IsDigits(choice) /\ ToInt(choice) \in 1..n)

\* typed, not q, and not a day of the calendar written YYYY-MM-DD
RefusedDate(text) ==
  LET t == Strip(text)
  IN t # << >> /\ Lower(t) # <<"q">> /\ ~Strptime(t).ok

\* empty, or a text the time parser gives no duration for
RefusedTime(text) ==
  LET t == Strip(text)
  IN Lower(t) # <<"q">> /\ (t = << >> \/ ~_parse_time_input(t).ok)

\* empty, or a text that is not a number
RefusedScore(text) ==
  LET t == Strip(text)
  IN Lower(t) # <<"q">> /\ (t = << >> \/ ~ParseFloat(t).ok)

\* the call is at the same prompt with the answers it had, and nothing
\* was written or returned
AsksAgain ==
  /\ pc' = pc /\ pc' # "idle"
  /\ ctx' = ctx
  /\ file' = file
  /\ last' = last

\* a refused answer at one of the selection prompts, at the date prompt
\* or at the score prompt asks again
RefusedElsewhereAsksAgain ==
  /\ \A text \in SelectTexts :
       /\ (pc = "select_game"
             /\ RefusedSelection(text, Len(ctx.record_data.games.v))
             /\ SelectGame(text)) => AsksAgain
       /\ (pc = "select_record_type"
             /\ RefusedSelection(text, Len(selected_game.record_types.v))
             /\ SelectRecordType(text)) => AsksAgain
       /\ (pc = "difficulty"
             /\ RefusedSelection(text, Len(selected_game.difficulties.v))
             /\ CollectDifficulty(text)) => AsksAgain
  /\ \A text \in DateTexts : (RefusedDate(text) /\ CollectDate(text)) => AsksAgain
  /\ \A text \in ScoreTexts : (RefusedScore(text) /\ CollectScore(text)) => AsksAgain

RefusedTimeAsksAgain ==
  \A text \in TimeTexts : (RefusedTime(text) /\ CollectTime(text)) => AsksAgain

\* C31: an out-of-range or non-numeric answer at game, record-type or
\* difficulty selection, an unparseable date, an empty or unparseable time
\* and an empty or unparseable score each leave add_record_to_file at the
\* same prompt, with the earlier answers kept, no later step entered and
\* nothing written.
C31_RefusedAnswerAsksAgain ==
  [][RefusedElsewhereAsksAgain /\ RefusedTimeAsksAgain]_vars

\* the same for the times the parser refuses with a ValueError
RefusedWithValueErrorAsksAgain ==
  [][/\ RefusedElsewhereAsksAgain
     /\ \A text \in TimeTexts :
          (/\ RefusedTime(text)
           /\ Strip(text) # << >> => _parse_time_input(text).exc = "ValueError"
           /\ CollectTime(text)) => AsksAgain]_vars

----------------------------------------------------------------------------
\* The order of the steps of add_record_to_file

\* the step a prompt belongs to; the confirmation asked for a path that
\* does not exist belongs to the screenshot step
StepOf(prompt) ==
  CASE prompt = "select_game" -> 1
    [] prompt = "select_record_type" -> 2
    [] prompt = "date" -> 3
    [] prompt = "description" -> 4
    [] prompt \in {"screenshot", "confirm_screenshot"} -> 5
    [] prompt \in {"difficulty", "time", "score"} -> 6
    [] OTHER -> 0

\* the values the steps before the given one have produced
ProducedBefore(step) ==
  /\ step > 1 => ctx.gi \in DOMAIN ctx.record_data.games.v
  /\ step > 2 => ctx.ri \in DOMAIN selected_game.record_types.v
  /\ step > 3 => Has(ctx.details, "date")
  /\ step > 4 => Has(ctx.details, "description")
  /\ step > 5 => Has(ctx.details, "screenshot")
  /\ \A key \in DOMAIN ctx.details :
       \/ key = "date" /\ step > 3
       \/ key = "description" /\ step > 4
       \/ key = "screenshot" /\ step > 5

\* the prompt of the type-specific field, none for the type completed
FieldPrompt(type) ==
  CASE type = "completed_at_difficulty" -> "difficulty"
    [] type \in {"fastest_time", "longest_time"} -> "time"
    [] type \in {"high_score", "low_score"} -> "score"
    [] OTHER -> "none"

\* a call in progress stays at its step or enters the next one, the first
\* prompt of a call is game selection, and the prompt of step 6 is the
\* one of the record type selected
StepsInOrder ==
  /\ (pc = "idle" /\ pc' # "idle") => pc' = "select_game"
  /\ (pc # "idle" /\ pc' # "idle")
       => /\ StepOf(pc') \in {StepOf(pc), StepOf(pc) + 1}
          /\ StepOf(pc') = StepOf(pc) => ctx'.details = ctx.details
  /\ StepOf(pc') = 6 => pc' = FieldPrompt(selected_record_type.type.s)

\* the write ends the call, and it is made from the last step of the
\* record type selected with every earlier value produced
WriteIsLast ==
  (last'.op = "add_record" /\ last'.wrote)
    => /\ pc' = "idle" /\ last'.reval = "ok"
       /\ StepOf(pc) = IF FieldPrompt(selected_record_type.type.s) = "none" THEN 5 ELSE 6
       /\ ProducedBefore(StepOf(pc))

\* C32: every add_record_to_file run that writes the file has completed
\* the steps in order, each once: game, record type, date, description,
\* screenshot, the field of the type (none for completed), then the entry
\* built, validated and saved; no step is entered before the previous one
\* has produced its value, and the write is the last step.
C32_StepsInOrder ==
  /\ [](pc # "idle" => ProducedBefore(StepOf(pc)))
  /\ [][StepsInOrder /\ WriteIsLast]_vars

\* a record written from the score prompt, the sixth step
C32_Witness ==
  /\ last.op = "add_record" /\ last.wrote /\ last.ret = "True"
  /\ last.at.stage = "score" /\ last.at.gi > 0 /\ last.at.ri > 0
  /\ pc = "idle"

----------------------------------------------------------------------------
\* add_game_to_file on a file that load rejects

RejectedByLoad(f) == f.kind # "absent" /\ ~LoadResult(f).ok

GamePrompts ==
  {"has_difficulties", "difficulty_level", "difficulty_again", "has_record_types",
   "record_type", "record_type_again", "record_type_name", "record_type_description"}

\* C33: add_game_to_file never writes to an existing file that load
\* rejects, bytes that are not JSON or a schema violation: the error of
\* load reaches the caller, the set-up of the game is not started and the
\* file keeps its contents.
C33_RejectedFileNotReplaced ==
  /\ (last.op = "add_game" /\ RejectedByLoad(last.pre))
       => /\ last.ret = "raised" /\ last.exc = LoadResult(last.pre).exc
          /\ ~last.wrote /\ file = last.pre
  /\ pc \in GamePrompts => ~RejectedByLoad(file)

\* the call was made on a file that is not JSON
C33_Witness ==
  /\ last.op = "add_game" /\ last.pre = Garbage
  /\ last.ret = "raised" /\ last.exc = "JSONDecodeError" /\ file = Garbage

----------------------------------------------------------------------------
\* The labels of a game's difficulties

RawRepeatedDifficulty(d) ==
  \E game \in RawList(d, "games") :
    LET difficulties == Get(game, "difficulties")
    IN difficulties.t = "list" /\ ~PairwiseDistinct(difficulties.v)

\* C34: every Game accepted by validation has pairwise-distinct labels in
\* its difficulties list; a Game whose difficulties holds the same label
\* twice is rejected on construction and on load.
C34_DifficultiesDistinct ==
  /\ \A doc \in AcceptedDocuments : \A game \in GamesOf(doc) :
       game.difficulties.t = "list" => PairwiseDistinct(game.difficulties.v)
  /\ (last.op = "load" /\ last.pre.kind = "json" /\ RawRepeatedDifficulty(last.pre.value))
       => last.ret = "raised"
  /\ (mem.st = "built" /\ RawRepeatedDifficulty(mem.kwargs)) => ~mem.ok

----------------------------------------------------------------------------
\* The screenshot values save writes

StoredScreenshots(d) ==
  {Get(e, "screenshot") :
     e \in UNION {RawList(rt, "records") :
                    rt \in UNION {RawList(game, "record_types") :
                                    game \in RawList(d, "games")}}}

HasBackslash(v) == v.t = "str" /\ \E i \in DOMAIN v.p : v.p[i] = "\\"

\* C35: in every file written by save no screenshot value contains a
\* backslash, whether the screenshot is a text or a path object in the
\* document in memory.
C35_NoBackslashWritten ==
  (mem.st = "built" /\ mem.saved /\ file.kind = "json")
    => \A v \in StoredScreenshots(file.value) : ~HasBackslash(v)

----------------------------------------------------------------------------
\* The difficulties collected for a new game

\* None, or a list that is not empty and has no label twice
NoneOrDistinct(difficulties) ==
  \/ difficulties = Null
  \/ /\ difficulties.t = "list" /\ difficulties.v # << >>
     /\ PairwiseDistinct(difficulties.v)

LevelPrompts == {"difficulty_level", "difficulty_again"}

\* one answer at a prompt of _get_difficulty_levels: the list entered so
\* far stays as it is or gets one new label at its end, and the
\* collection ends with that list, or with None after two empty answers
LevelsInOrder ==
  pc \in LevelPrompts
    => \/ /\ pc' \in LevelPrompts
          /\ \/ ctx'.details.levels = ctx.details.levels
             \/ \E label \in LevelTexts \ {""} :
                  /\ Str(label) \notin Range(ctx.details.levels)
                  /\ ctx'.details.levels = Append(ctx.details.levels, Str(label))
       \/ /\ pc' = "has_record_types"
          /\ ctx.details.levels # << >>
          /\ ctx'.details.difficulties = List(ctx.details.levels)
       \/ /\ pc' = "has_record_types"
          /\ pc = "difficulty_again" /\ ctx.details.levels = << >>
          /\ ctx'.details.difficulties = Null

\* C36: the difficulty list collected interactively by add_game_to_file
\* is either None or a non-empty list without repeated labels, in the
\* order of entry: a label entered a second time is not added, and two
\* empty answers in a row before any label give None.
C36_CollectedDifficulties ==
  /\ [](pc \in GamePrompts
          => /\ NoneOrDistinct(ctx.details.difficulties)
             /\ PairwiseDistinct(ctx.details.levels))
  /\ [][LevelsInOrder]_vars

\* Hard entered before Normal, and the list collected in that order
C36_Witness ==
  /\ pc = "has_record_types"
  /\ ctx.details.difficulties = List(<<Str("Hard"), Str("Normal")>>)

----------------------------------------------------------------------------
\* The record types collected for a new game

\* no type twice, no entries, and completed_at_difficulty only beside a
\* list of difficulties that is not empty
TypesCollectedFor(types, difficulties) ==
  /\ \A i, j \in DOMAIN types : i # j => types[i].type # types[j].type
  /\ \A i \in DOMAIN types : types[i].records = List(<< >>)
  /\ (\E i \in DOMAIN types : types[i].type = Str("completed_at_difficulty"))
       => (difficulties.t = "list" /\ difficulties.v # << >>)

\* the game a set-up at the terminal has just written, the last of the file
SetUpGame == file.value["games"].v[Len(file.value["games"].v)]

SetUpWritten ==
  last.op = "add_game" /\ last.wrote /\ last.at.stage \in GamePrompts

\* C37: the record types collected interactively for a new game are
\* either None or a non-empty list in which no two record types have the
\* same type, each has records equal to the empty list, and a
\* completed_at_difficulty record type appears only if the difficulties
\* collected for the game are a non-empty list.
C37_CollectedRecordTypes ==
  /\ pc \in GamePrompts
       => TypesCollectedFor(ctx.details.types, ctx.details.difficulties)
  /\ SetUpWritten
       => \/ SetUpGame.record_types = Null
          \/ /\ SetUpGame.record_types.t = "list"
             /\ SetUpGame.record_types.v # << >>
             /\ TypesCollectedFor(SetUpGame.record_types.v, SetUpGame.difficulties)

\* a game set up with difficulties and two record types, one of them
\* completed_at_difficulty
C37_Witness ==
  /\ SetUpWritten
  /\ SetUpGame.record_types.t = "list" /\ Len(SetUpGame.record_types.v) = 2
  /\ \E i \in DOMAIN SetUpGame.record_types.v :
       SetUpGame.record_types.v[i].type = Str("completed_at_difficulty")

----------------------------------------------------------------------------
\* The answer q at each prompt of add_record_to_file

\* q ends the call at the three selection prompts and at the date, time
\* and score prompts
QuitHonoured ==
  \A text \in CancelTexts :
    (\/ SelectGame(text) \/ SelectRecordType(text) \/ CollectDate(text)
     \/ CollectDifficulty(text) \/ CollectTime(text) \/ CollectScore(text))
      => AbortedHere

\* the screenshot of the entry the step writes
ScreenshotWritten ==
  LET records == file'.value["games"].v[ctx.gi]["record_types"].v[ctx.ri]["records"].v
  IN records[Len(records)]["screenshot"]

\* the path q went the way of every path that exists: into the details
\* for the prompt that follows, into the entry written when no prompt
\* follows, and nowhere for a completed_at_difficulty record of a game
\* that has no difficulties to choose from
QuitTakenAsPath ==
  \/ /\ pc' \in {"difficulty", "time", "score"}
     /\ ctx'.details["screenshot"] = PathStr(ShotQ)
  \/ /\ pc' = "idle" /\ last'.ret = "True" /\ last'.wrote
     /\ ScreenshotWritten = PathStr(ShotQ)
  \/ /\ pc' = "idle" /\ last'.ret = "False"
     /\ selected_record_type.type.s = "completed_at_difficulty"
     /\ Falsy(selected_game.difficulties)

\* q is the description, q is a path, and q to "Continue anyway?" is not
\* a yes
QuitKept ==
  /\ CollectDescription("q")
       => pc' = "screenshot" /\ ctx'.details["description"] = Str("q")
  /\ CollectScreenshot(ShotQ) => QuitTakenAsPath
  /\ ConfirmScreenshot(<<"q">>) => pc' = "screenshot" /\ ctx'.details = ctx.details

\* C38: in add_record_to_file the answer q is honoured at exactly the
\* steps game selection, record-type selection, date, difficulty, time and
\* score, each ending the call with False and nothing written; at the
\* description step q is kept as the description and at the screenshot
\* step q is taken as a path, and neither cancels the call.
C38_QuitOnlyWhereAsked == [][QuitHonoured /\ QuitKept]_vars

\* an entry written with the description q and the screenshot q
C38_Witness ==
  /\ last.op = "add_record" /\ last.ret = "True" /\ last.wrote
  /\ WrittenEntry["description"] = Str("q")
  /\ WrittenEntry["screenshot"] = PathStr(ShotQ)

----------------------------------------------------------------------------
\* Termination of the interactive calls

\* an answer each prompt of the set-up of a game refuses
RefusedYesNo(text) == YesNo(Lower(Strip(text))) = "again"
RefusedChoice(choice) ==
  choice # "" /\ (available_types(choice) = "none"
                    \/ available_types(choice) \in used_types)

\* a refused answer does not end the call
RefusedKeepsCall ==
  /\ \A text \in SelectTexts :
       /\ (pc = "select_game"
             /\ RefusedSelection(text, Len(ctx.record_data.games.v))
             /\ SelectGame(text)) => pc' # "idle"
       /\ (pc = "select_record_type"
             /\ RefusedSelection(text, Len(selected_game.record_types.v))
             /\ SelectRecordType(text)) => pc' # "idle"
       /\ (pc = "difficulty"
             /\ RefusedSelection(text, Len(selected_game.difficulties.v))
             /\ CollectDifficulty(text)) => pc' # "idle"
  /\ \A text \in DateTexts : (RefusedDate(text) /\ CollectDate(text)) => pc' # "idle"
  /\ \A text \in TimeTexts : (RefusedTime(text) /\ CollectTime(text)) => pc' # "idle"
  /\ \A text \in ScoreTexts : (RefusedScore(text) /\ CollectScore(text)) => pc' # "idle"
  /\ \A text \in YesNoTexts :
       (RefusedYesNo(text) /\ (HasDifficulties(text) \/ HasRecordTypes(text)))
         => pc' # "idle"
  /\ \A label \in LevelTexts :
       (pc = "difficulty_level" /\ Str(label) \in Range(ctx.details.levels)
          /\ DifficultyLevel(label)) => pc' # "idle"
  /\ \A choice \in ChoiceTexts :
       (pc \in {"record_type", "record_type_again"} /\ RefusedChoice(choice)
          /\ (RecordTypeChoice(choice) \/ RecordTypeAgain(choice))) => pc' # "idle"

\* a call in progress ends
CallEnds == (pc # "idle") ~> (pc = "idle")

\* C39: every add_game_to_file and add_record_to_file call reaches a
\* terminal outcome (written, rejected, aborted or error) provided each
\* step is in the end given an answer it can use or q; no prompt loop
\* counts the retries, so a call does not end on an answer its prompt
\* refuses.
C39_CallsTerminate == CallEnds /\ [][RefusedKeepsCall]_vars

====
